---- MODULE Spec2Model ----
(***************************************************************************)
(* pocketLP TAP agent: the Ed25519 request signer (TAPSigner), the routes  *)
(* that sign and verify envelopes (/sign, /purchase, /verify).             *)
(*                                                                         *)
(* Representation.  A JavaScript text string is the sequence of its        *)
(* characters, each a one-character string.  A Uint8Array, a Buffer and a  *)
(* "binary string" (String.fromCharCode of bytes) are the sequence of      *)
(* their byte values 0..255.  An optional argument is <<>> when it is      *)
(* undefined and <<v>> when it is v.  A call that can throw returns        *)
(* [thrown |-> BOOLEAN, value |-> ...].                                    *)
(***************************************************************************)
EXTENDS Integers, Sequences, FiniteSets, TLC

(***************************************************************************)
(* Characters                                                              *)
(***************************************************************************)

\* The printable ASCII characters in code order: space (32) to "_" (95), and
\* "a" (97) to "~" (126).  The grave accent (96) is not a character of the model.
PrintableLow ==
  << " ", "!", "\"", "#", "$", "%", "&", "'", "(", ")", "*", "+", ",", "-", ".", "/",
     "0", "1", "2", "3", "4", "5", "6", "7", "8", "9", ":", ";", "<", "=", ">", "?",
     "@", "A", "B", "C", "D", "E", "F", "G", "H", "I", "J", "K", "L", "M", "N", "O",
     "P", "Q", "R", "S", "T", "U", "V", "W", "X", "Y", "Z", "[", "\\", "]", "^", "_" >>

PrintableHigh ==
  << "a", "b", "c", "d", "e", "f", "g", "h", "i", "j", "k", "l", "m", "n", "o",
     "p", "q", "r", "s", "t", "u", "v", "w", "x", "y", "z", "{", "|", "}", "~" >>

Chars ==
  {PrintableLow[i] : i \in 1..Len(PrintableLow)}
    \cup {PrintableHigh[i] : i \in 1..Len(PrintableHigh)} \cup {"\n"}

\* String.prototype.charCodeAt for the characters of the model.
CharCode ==
  [c \in Chars |->
     IF c = "\n" THEN 10
     ELSE IF \E i \in 1..Len(PrintableLow) : PrintableLow[i] = c
          THEN 31 + (CHOOSE i \in 1..Len(PrintableLow) : PrintableLow[i] = c)
          ELSE 96 + (CHOOSE i \in 1..Len(PrintableHigh) : PrintableHigh[i] = c)]

\* new TextEncoder().encode(s): UTF-8; every character of the model is ASCII,
\* whose UTF-8 encoding is the single byte of its code.
TextEncode(s) == [i \in 1..Len(s) |-> CharCode[s[i]]]

Digits == <<"0", "1", "2", "3", "4", "5", "6", "7", "8", "9">>

\* Template-literal rendering of a non-negative integer: its decimal digits.
RECURSIVE ToDecimal(_)
ToDecimal(n) ==
  IF n < 10 THEN <<Digits[n + 1]>>
  ELSE Append(ToDecimal(n \div 10), Digits[(n % 10) + 1])

\* \w of a JavaScript regular expression: [A-Za-z0-9_].
IsWordChar(c) ==
  LET k == CharCode[c]
  IN  \/ (48 <= k /\ k <= 57)
      \/ (65 <= k /\ k <= 90)
      \/ (97 <= k /\ k <= 122)
      \/ k = 95

\* s.replace(/x/g, y) for single characters x, y.
ReplaceChar(s, x, y) == [i \in 1..Len(s) |-> IF s[i] = x THEN y ELSE s[i]]

\* s.replace(/x/g, "") for a single character x.
RemoveChar(s, x) == SelectSeq(s, LAMBDA c : c # x)

RECURSIVE Repeat(_, _)
Repeat(c, n) == IF n = 0 THEN <<>> ELSE <<c>> \o Repeat(c, n - 1)

Ok(v) == [thrown |-> FALSE, value |-> v]
Thrown == [thrown |-> TRUE, value |-> <<>>]

(***************************************************************************)
(* base64 (btoa, atob, Buffer) and base58 (bs58)                           *)
(***************************************************************************)

B64 ==
  << "A", "B", "C", "D", "E", "F", "G", "H", "I", "J", "K", "L", "M", "N", "O", "P",
     "Q", "R", "S", "T", "U", "V", "W", "X", "Y", "Z", "a", "b", "c", "d", "e", "f",
     "g", "h", "i", "j", "k", "l", "m", "n", "o", "p", "q", "r", "s", "t", "u", "v",
     "w", "x", "y", "z", "0", "1", "2", "3", "4", "5", "6", "7", "8", "9", "+", "/" >>

B64Chars == {B64[i] : i \in 1..64}

\* The 6-bit value of a base64 character.
B64Value == [c \in B64Chars |-> (CHOOSE i \in 1..64 : B64[i] = c) - 1]

\* btoa(String.fromCharCode(...data)): standard base64 with "=" padding.
\* Output character k belongs to the group of three bytes q = (k - 1) \div 4.
Btoa(data) ==
  LET n == Len(data)
      b(j) == IF j <= n THEN data[j] ELSE 0
      char(k) ==
        LET q == (k - 1) \div 4
            r == (k - 1) % 4
            b0 == b(3 * q + 1)
            b1 == b(3 * q + 2)
            b2 == b(3 * q + 3)
        IN  IF r = 0 THEN B64[(b0 \div 4) + 1]
            ELSE IF r = 1 THEN B64[((b0 % 4) * 16 + (b1 \div 16)) + 1]
            ELSE IF r = 2 THEN
              (IF 3 * q + 2 > n THEN "=" ELSE B64[((b1 % 16) * 4 + (b2 \div 64)) + 1])
            ELSE (IF 3 * q + 3 > n THEN "=" ELSE B64[(b2 % 64) + 1])
  IN  [k \in 1..(4 * ((n + 2) \div 3)) |-> char(k)]

\* The bytes of a run of base64 characters, 6 bits each; left over bits are
\* dropped.  Byte j starts at bit 8 * (j - 1) of the run.
DecodeSextets(s) ==
  LET v(q) == B64Value[s[q + 1]]
      byte(j) ==
        LET q == (8 * (j - 1)) \div 6
            r == (8 * (j - 1)) % 6
        IN  IF r = 0 THEN v(q) * 4 + (v(q + 1) \div 16)
            ELSE IF r = 2 THEN (v(q) % 16) * 16 + (v(q + 1) \div 4)
            ELSE (v(q) % 4) * 64 + v(q + 1)
  IN  [j \in 1..((Len(s) * 6) \div 8) |-> byte(j)]

IsAsciiWhitespace(c) == c \in {" ", "\n"}

\* atob(s) followed by charCodeAt on every character: the forgiving-base64
\* decode.  Whitespace is removed; when the length is then a multiple of 4, one
\* or two trailing "=" are removed; a length of 1 modulo 4 or any character
\* outside the alphabet throws InvalidCharacterError.
Atob(s) ==
  LET w == SelectSeq(s, LAMBDA c : ~IsAsciiWhitespace(c))
      n == Len(w)
      cut == IF n % 4 = 0 /\ n >= 1 /\ w[n] = "="
             THEN (IF n >= 2 /\ w[n - 1] = "=" THEN 2 ELSE 1)
             ELSE 0
      d == SubSeq(w, 1, n - cut)
  IN  IF Len(d) % 4 = 1 \/ \E i \in 1..Len(d) : d[i] \notin B64Chars
      THEN Thrown
      ELSE Ok(DecodeSextets(d))

\* Buffer.from(s, 'base64'): Node's lenient decoder.  Both the standard and the
\* URL-safe alphabet are accepted, characters outside them are skipped, and the
\* first "=" ends the input.
BufferFromBase64(s) ==
  LET std == ReplaceChar(ReplaceChar(s, "-", "+"), "_", "/")
      stop == IF \E i \in 1..Len(std) : std[i] = "="
              THEN (CHOOSE i \in 1..Len(std) :
                      std[i] = "=" /\ \A j \in 1..(i - 1) : std[j] # "=") - 1
              ELSE Len(std)
      legal == SelectSeq(SubSeq(std, 1, stop), LAMBDA c : c \in B64Chars)
  IN  DecodeSextets(legal)

\* buf.toString('base64'): standard base64 with padding.
ToStringBase64(buf) == Btoa(buf)

B58 ==
  << "1", "2", "3", "4", "5", "6", "7", "8", "9", "A", "B", "C", "D", "E", "F", "G",
     "H", "J", "K", "L", "M", "N", "P", "Q", "R", "S", "T", "U", "V", "W", "X", "Y",
     "Z", "a", "b", "c", "d", "e", "f", "g", "h", "i", "j", "k", "m", "n", "o", "p",
     "q", "r", "s", "t", "u", "v", "w", "x", "y", "z" >>

B58Chars == {B58[i] : i \in 1..58}

B58Value == [c \in B58Chars |-> (CHOOSE i \in 1..58 : B58[i] = c) - 1]

\* One step of a base conversion, as base-x does it: digits (least significant
\* first, base `to') times `from' plus carry.  `done' are the digits already
\* rewritten.  (The first disjuncts of the guard are never true; they make TLC
\* evaluate the accumulators at every level.)
RECURSIVE MulAdd(_, _, _, _, _, _)
MulAdd(digits, i, carry, from, to, done) ==
  IF carry < 0 \/ Len(done) < 0 \/ i > Len(digits)
  THEN (IF carry = 0 THEN done
        ELSE MulAdd(digits, i, carry \div to, from, to, Append(done, carry % to)))
  ELSE MulAdd(digits, i + 1, (carry + from * digits[i]) \div to, from, to,
              Append(done, (carry + from * digits[i]) % to))

\* The digits of the number whose base-`from' digits are src[i..], most
\* significant first, added to `digits'.  Three digits of src are taken in one
\* step (digits * from^3 + their value) while three are left.
RECURSIVE Convert(_, _, _, _, _)
Convert(src, i, digits, from, to) ==
  IF Len(digits) < 0 \/ i > Len(src) THEN digits
  ELSE IF i + 2 <= Len(src) THEN
    Convert(src, i + 3,
            MulAdd(digits, 1, (src[i] * from + src[i + 1]) * from + src[i + 2],
                   from * from * from, to, <<>>),
            from, to)
  ELSE Convert(src, i + 1, MulAdd(digits, 1, src[i], from, to, <<>>), from, to)

Reverse(s) == [i \in 1..Len(s) |-> s[Len(s) + 1 - i]]

RECURSIVE LeadingCount(_, _, _)
LeadingCount(s, i, x) ==
  IF i <= Len(s) /\ s[i] = x THEN 1 + LeadingCount(s, i + 1, x) ELSE 0

\* bs58.encode(bytes): one "1" per leading zero byte, then the big-endian base-58
\* digits of the rest.
Bs58Encode(bytes) ==
  LET zeroes == LeadingCount(bytes, 1, 0)
      digits == Convert(SubSeq(bytes, zeroes + 1, Len(bytes)), 1, <<>>, 256, 58)
  IN  Repeat("1", zeroes) \o [i \in 1..Len(digits) |-> B58[Reverse(digits)[i] + 1]]

\* bs58.decode(string): throws on a character outside the alphabet.
Bs58Decode(str) ==
  IF \E i \in 1..Len(str) : str[i] \notin B58Chars THEN Thrown
  ELSE LET zeroes == LeadingCount(str, 1, "1")
           vals == [i \in 1..(Len(str) - zeroes) |-> B58Value[str[zeroes + i]]]
           digits == Convert(vals, 1, <<>>, 58, 256)
       IN  Ok([i \in 1..zeroes |-> 0] \o Reverse(digits))

(***************************************************************************)
(* tweetnacl (nacl.sign): Ed25519.  The library is not part of the         *)
(* repository; it is modelled as a deterministic signature scheme with     *)
(* the library's sizes and size checks.  A secret key is seed (32 bytes)   *)
(* followed by the public key (32 bytes).  The detached signature of a     *)
(* message is 64 bytes determined by the key and the message, and          *)
(* verification succeeds exactly when the signature is the one the holder  *)
(* of the secret key matching the public key produces for the message.     *)
(***************************************************************************)

crypto_sign_PUBLICKEYBYTES == 32
crypto_sign_SECRETKEYBYTES == 64
crypto_sign_BYTES == 64

\* The public key of a seed (stands for the scalar multiplication of Ed25519).
PublicKeyOfSeed(seed) ==
  [i \in 1..crypto_sign_PUBLICKEYBYTES |-> (seed[i] * 5 + 3 * i + 17) % 256]

\* nacl.sign.keyPair() with the random seed drawn by the caller of the model.
NaclKeyPair(seed) ==
  [publicKey |-> PublicKeyOfSeed(seed), secretKey |-> seed \o PublicKeyOfSeed(seed)]

\* nacl.sign.keyPair.fromSecretKey(secretKey)
NaclKeyPairFromSecretKey(secretKey) ==
  IF Len(secretKey) # crypto_sign_SECRETKEYBYTES THEN Thrown
  ELSE Ok([publicKey |-> SubSeq(secretKey, 33, 64), secretKey |-> secretKey])

\* The weighted sum of the message bytes at positions p, p + 64, p + 128, ...
\* (weights w, w + 2, ...: odd, so that a change of one byte changes the sum
\* modulo 256).
RECURSIVE ColumnSum(_, _, _)
ColumnSum(msg, p, w) ==
  IF p > Len(msg) THEN 0
  ELSE ((msg[p] + 1) * w + ColumnSum(msg, p + crypto_sign_BYTES, w + 2)) % 256

\* The 64 signature bytes of msg under the key pair whose public key is pk:
\* byte i depends on the message bytes of column i, on the message length and
\* on byte i of the public key.
SignatureBytes(msg, pk) ==
  [i \in 1..crypto_sign_BYTES |->
     (ColumnSum(msg, i, 1) + 7 * Len(msg)
        + 3 * (IF Len(pk) = 0 THEN 0 ELSE pk[((i - 1) % Len(pk)) + 1])) % 256]

\* nacl.sign.detached(msg, secretKey)
NaclSignDetached(msg, secretKey) == SignatureBytes(msg, SubSeq(secretKey, 33, 64))

\* nacl.sign.detached.verify(msg, sig, publicKey): throws on a wrong size.
NaclSignDetachedVerify(msg, sig, publicKey) ==
  IF Len(sig) # crypto_sign_BYTES THEN Thrown
  ELSE IF Len(publicKey) # crypto_sign_PUBLICKEYBYTES THEN Thrown
  ELSE Ok(sig = SignatureBytes(msg, publicKey))

(***************************************************************************)
(* TAPSigner (tap-agent/src/crypto/tapSigner.ts).  `this' is the record    *)
(* [keyPair, keyId] of the instance's two fields.                          *)
(***************************************************************************)

\* The literal pieces of the two template strings.
LitAuthority ==
  << "\"", "@", "a", "u", "t", "h", "o", "r", "i", "t", "y", "\"", ":", " " >>
LitPath ==
  << "\"", "@", "p", "a", "t", "h", "\"", ":", " " >>
LitSignatureParams ==
  << "\"", "@", "s", "i", "g", "n", "a", "t", "u", "r", "e", "-", "p", "a", "r",
     "a", "m", "s", "\"", ":", " " >>
LitSig2Created ==
  << "s", "i", "g", "2", "=", "(", "\"", "@", "a", "u", "t", "h", "o", "r", "i",
     "t", "y", "\"", " ", "\"", "@", "p", "a", "t", "h", "\"", ")", ";", "c", "r",
     "e", "a", "t", "e", "d", "=" >>
LitKeyid ==
  << ";", "k", "e", "y", "i", "d", "=", "\"" >>
LitExpires ==
  << "\"", ";", "e", "x", "p", "i", "r", "e", "s", "=" >>
LitNonce ==
  << ";", "n", "o", "n", "c", "e", "=", "\"" >>
LitTag ==
  << "\"", ";", "t", "a", "g", "=", "\"" >>
LitQuote == << "\"" >>
LitNewline == << "\n" >>
LitSigOpen ==
  << "s", "i", "g", "2", "=", ":" >>
LitSigClose == << ":" >>
LitUndefined ==
  << "u", "n", "d", "e", "f", "i", "n", "e", "d" >>

\* The validity window added to `created' (8 minutes).
ValidityWindow == 480

generateKeyId(keyPair) == Bs58Encode(keyPair.publicKey)

\* new TAPSigner(privateKeyBase58?, keyId?).  An absent argument and the empty
\* string are both falsy.  `seed' is the randomness nacl.sign.keyPair() draws
\* when no private key is given.
TAPSigner(privateKeyBase58, keyId, seed) ==
  IF privateKeyBase58 # <<>> /\ privateKeyBase58[1] # <<>>
  THEN LET privateKey == Bs58Decode(privateKeyBase58[1])
           kp == IF privateKey.thrown THEN Thrown
                 ELSE NaclKeyPairFromSecretKey(privateKey.value)
       IN  IF kp.thrown THEN Thrown
           ELSE Ok([keyPair |-> kp.value,
                    keyId |-> IF keyId # <<>> /\ keyId[1] # <<>>
                              THEN keyId[1] ELSE generateKeyId(kp.value)])
  ELSE Ok([keyPair |-> NaclKeyPair(seed), keyId |-> generateKeyId(NaclKeyPair(seed))])

getPublicKey(this) == Bs58Encode(this.keyPair.publicKey)

getKeyId(this) == this.keyId

\* createSignatureBase as it would be with the tag left out of the last line.
createSignatureBaseNoTag(authority, path, created, keyid, expires, nonce, tag) ==
  LitAuthority \o authority \o LitNewline
    \o LitPath \o path \o LitNewline
    \o LitSignatureParams \o LitSig2Created \o ToDecimal(created)
    \o LitKeyid \o keyid
    \o LitExpires \o ToDecimal(expires)
    \o LitNonce \o nonce \o LitQuote

createSignatureBase(authority, path, created, keyid, expires, nonce, tag) ==
  LitAuthority \o authority \o LitNewline
    \o LitPath \o path \o LitNewline
    \o LitSignatureParams \o LitSig2Created \o ToDecimal(created)
    \o LitKeyid \o keyid
    \o LitExpires \o ToDecimal(expires)
    \o LitNonce \o nonce
    \o LitTag \o tag \o LitQuote

base64UrlEncode(data) ==
  RemoveChar(ReplaceChar(ReplaceChar(Btoa(data), "+", "-"), "/", "_"), "=")

\* base64UrlDecode as it would be without the two replace calls.
base64UrlDecodeNoReplace(data) ==
  LET padding == Repeat("=", (4 - (Len(data) % 4)) % 4)
  IN  Atob(data \o padding)

\* base64UrlDecode(data): the bytes, or what atob throws.
base64UrlDecode(data) ==
  LET base64 == ReplaceChar(ReplaceChar(data, "-", "+"), "_", "/")
      padding == Repeat("=", (4 - (Len(base64) % 4)) % 4)
  IN  Atob(base64 \o padding)

\* The locals of signTAPRequest; dateNow is Math.floor(Date.now() / 1000).
SignCreated(dateNow) == dateNow
\* expires as it would be with the window counted in minutes.
SignExpiresMinutes(dateNow) == SignCreated(dateNow) + 8
SignExpires(dateNow) == SignCreated(dateNow) + ValidityWindow

SignSignatureInput(this, requestData, dateNow) ==
  LitSig2Created \o ToDecimal(SignCreated(dateNow))
    \o LitKeyid \o this.keyId
    \o LitExpires \o ToDecimal(SignExpires(dateNow))
    \o LitNonce \o requestData.nonce
    \o LitTag \o requestData.tag \o LitQuote

SignSignatureBase(this, requestData, dateNow) ==
  createSignatureBase(requestData.authority, requestData.path, SignCreated(dateNow),
                      this.keyId, SignExpires(dateNow), requestData.nonce,
                      requestData.tag)

\* signTAPRequest(requestData): the envelope ('Signature-Input', 'Signature').
signTAPRequest(this, requestData, dateNow) ==
  LET signature == NaclSignDetached(TextEncode(SignSignatureBase(this, requestData, dateNow)),
                                    this.keyPair.secretKey)
      signatureB64 == base64UrlEncode(signature)
  IN  [SignatureInput |-> SignSignatureInput(this, requestData, dateNow),
       Signature |-> LitSigOpen \o signatureB64 \o LitSigClose]

\* verifySignature as it would be if it always took the signer's own key.
verifySignatureOwnKey(this, signatureBase, signature, publicKey) ==
  LET sigBytes == base64UrlDecode(signature)
      verified == IF sigBytes.thrown THEN Thrown
                  ELSE NaclSignDetachedVerify(TextEncode(signatureBase),
                                              sigBytes.value, this.keyPair.publicKey)
  IN  IF verified.thrown THEN Ok(FALSE) ELSE Ok(verified.value)

\* verifySignature as it would be without the try/catch.
verifySignatureNoCatch(this, signatureBase, signature, publicKey) ==
  LET sigBytes == base64UrlDecode(signature)
      pubKey == IF publicKey # <<>> THEN publicKey[1] ELSE this.keyPair.publicKey
  IN  IF sigBytes.thrown THEN Thrown
      ELSE NaclSignDetachedVerify(TextEncode(signatureBase), sigBytes.value, pubKey)

\* verifySignature as it would be if it removed "sig2=:" and ":" itself.
verifySignatureStripping(this, signatureBase, signature, publicKey) ==
  LET n == Len(signature)
      head == IF n >= Len(LitSigOpen) /\ SubSeq(signature, 1, Len(LitSigOpen)) = LitSigOpen
              THEN SubSeq(signature, Len(LitSigOpen) + 1, n) ELSE signature
      bare == IF Len(head) >= 1 /\ head[Len(head)] = ":"
              THEN SubSeq(head, 1, Len(head) - 1) ELSE head
      sigBytes == base64UrlDecode(bare)
      pubKey == IF publicKey # <<>> THEN publicKey[1] ELSE this.keyPair.publicKey
      verified == IF sigBytes.thrown THEN Thrown
                  ELSE NaclSignDetachedVerify(TextEncode(signatureBase),
                                              sigBytes.value, pubKey)
  IN  IF verified.thrown THEN Ok(FALSE) ELSE Ok(verified.value)

\* verifySignature(signatureBase, signature, publicKey?): the try block's result,
\* with everything thrown inside it caught and answered false.
verifySignature(this, signatureBase, signature, publicKey) ==
  LET sigBytes == base64UrlDecode(signature)
      pubKey == IF publicKey # <<>> THEN publicKey[1] ELSE this.keyPair.publicKey
      verified == IF sigBytes.thrown THEN Thrown
                  ELSE NaclSignDetachedVerify(TextEncode(signatureBase),
                                              sigBytes.value, pubKey)
  IN  IF verified.thrown THEN Ok(FALSE) ELSE Ok(verified.value)

(***************************************************************************)
(* The routes (tap-agent/src/routes/tapRoutes.ts)                          *)
(***************************************************************************)

RandomBytesLength == 64

\* crypto.randomBytes(64).toString('base64') for the random bytes drawn.
GenerateNonce(randomBytes) == ToStringBase64(randomBytes)

Min(S) == CHOOSE m \in S : \A k \in S : m <= k
Max(S) == CHOOSE m \in S : \A k \in S : k <= m

\* The first match of /(\w+)=([^;]+)/ in s at or after position p, as
\* [found, start, eq, end]: eq is the first "=" that follows a word character
\* and is followed by a character other than ";"; the match starts where the
\* run of word characters before eq starts and ends before the next ";".
FirstMatch(s, p) ==
  LET n == Len(s)
      eqs == {e \in (p + 1)..(n - 1) :
                s[e] = "=" /\ IsWordChar(s[e - 1]) /\ s[e + 1] # ";"}
  IN  IF eqs = {} THEN [found |-> FALSE, start |-> 0, eq |-> 0, end |-> 0]
      ELSE LET eq == Min(eqs)
           IN  [found |-> TRUE,
                start |-> 1 + Max({k \in p..(eq - 1) : ~IsWordChar(s[k])} \cup {p - 1}),
                eq |-> eq,
                end |-> Min({k \in (eq + 1)..n : s[k] = ";"} \cup {n + 1}) - 1]

\* signatureInput.match(/(\w+)=([^;]+)/g) from position p on, each match turned
\* into the pair the forEach body stores: [key, value] = match.split('='), and
\* value.replace(/"/g, '').  split cuts at every "=", so value is the text
\* between the first "=" of the match and its second "=" (or its end).
RECURSIVE MatchPairs(_, _)
MatchPairs(s, p) ==
  LET m == FirstMatch(s, p)
  IN  IF ~m.found THEN <<>>
      ELSE LET stop == Min({k \in (m.eq + 1)..m.end : s[k] = "="} \cup {m.end + 1})
               key == SubSeq(s, m.start, m.eq - 1)
               value == RemoveChar(SubSeq(s, m.eq + 1, stop - 1), "\"")
           IN  <<[key |-> key, value |-> value]>> \o MatchPairs(s, m.end + 1)

parseSignatureInput(signatureInput) == MatchPairs(signatureInput, 1)

\* params[key] inside a template literal: the last value stored under key, or
\* the text "undefined".
Param(params, key) ==
  LET hits == {i \in 1..Len(params) : params[i].key = key}
  IN  IF hits = {} THEN LitUndefined ELSE params[Max(hits)].value

KeyCreated ==
  << "c", "r", "e", "a", "t", "e", "d" >>
KeyKeyid ==
  << "k", "e", "y", "i", "d" >>
KeyExpires ==
  << "e", "x", "p", "i", "r", "e", "s" >>
KeyNonce ==
  << "n", "o", "n", "c", "e" >>
KeyTag ==
  << "t", "a", "g" >>

\* createSignatureBase(authority, path, params) of the routes file.
routeCreateSignatureBase(authority, path, params) ==
  LitAuthority \o authority \o LitNewline
    \o LitPath \o path \o LitNewline
    \o LitSignatureParams \o LitSig2Created \o Param(params, KeyCreated)
    \o LitKeyid \o Param(params, KeyKeyid)
    \o LitExpires \o Param(params, KeyExpires)
    \o LitNonce \o Param(params, KeyNonce)
    \o LitTag \o Param(params, KeyTag) \o LitQuote

\* s.replace(/^sig2=:/, '')
StripSigOpen(s) ==
  IF Len(s) >= Len(LitSigOpen) /\ SubSeq(s, 1, Len(LitSigOpen)) = LitSigOpen
  THEN SubSeq(s, Len(LitSigOpen) + 1, Len(s)) ELSE s

\* s.replace(/:$/, '')
StripSigClose(s) ==
  IF Len(s) >= 1 /\ s[Len(s)] = ":" THEN SubSeq(s, 1, Len(s) - 1) ELSE s

StripWrapper(signature) == StripSigClose(StripSigOpen(signature))

\* The body of POST /sign's handler.  body.authority, body.path and body.tag
\* are text, "" when absent (both are falsy).
postSign(this, body, randomBytes, dateNow) ==
  IF body.authority = <<>> \/ body.path = <<>> \/ body.tag = <<>>
  THEN [status |-> 400]
  ELSE LET nonce == GenerateNonce(randomBytes)
           signature == signTAPRequest(this,
                          [authority |-> body.authority, path |-> body.path,
                           keyId |-> getKeyId(this), nonce |-> nonce, tag |-> body.tag],
                          dateNow)
       IN  [status |-> 200, signature |-> signature, keyId |-> getKeyId(this),
            nonce |-> nonce, publicKey |-> getPublicKey(this)]

\* A JSON value is text, a sequence of characters, or it is no string: a number
\* of a request's body stands in the model as the value NoString.
NoString == <<"number">>
IsString(v) == \A i \in 1..Len(v) : v[i] \in Chars

\* The body of POST /verify's handler: the response, and beside it the
\* handler's locals params, signatureBase and pubKeyBytes (<<>> when the
\* handler returned before it set them).
postVerify(this, body) ==
  IF body.signatureInput = <<>> \/ body.signature = <<>>
       \/ body.authority = <<>> \/ body.path = <<>>
  THEN [response |-> [status |-> 400], params |-> <<>>, signatureBase |-> <<>>,
        pubKeyBytes |-> <<>>]
  ELSE LET params == parseSignatureInput(body.signatureInput)
           signatureBase == routeCreateSignatureBase(body.authority, body.path, params)
           pubKeyBytes == IF body.publicKey # <<>> /\ body.publicKey[1] # <<>>
                          THEN BufferFromBase64(body.publicKey[1])
                          ELSE BufferFromBase64(getPublicKey(this))
           \* signature.replace is no function when signature is no string
           isValid == IF ~IsString(body.signature) THEN Thrown
                      ELSE verifySignature(this, signatureBase,
                                           StripWrapper(body.signature), <<pubKeyBytes>>)
       IN  [response |->
              IF isValid.thrown THEN [status |-> 500]
              ELSE [status |-> 200, valid |-> isValid.value,
                    keyId |-> Param(params, KeyKeyid),
                    timestamp |-> Param(params, KeyCreated),
                    expires |-> Param(params, KeyExpires)],
            params |-> params, signatureBase |-> signatureBase,
            pubKeyBytes |-> pubKeyBytes]

(***************************************************************************)
(* VisaKeyRegistry (tap-agent/src/visa/visaKeyRegistry.ts)                 *)
(***************************************************************************)

\* A Map<string, JWK> is the sequence of its entries in insertion order.
\* Map.prototype.set replaces the value of a key that is there, in place, and
\* appends an entry for a key that is not.
MapHas(map, key) == \E i \in 1..Len(map) : map[i].key = key
MapSet(map, key, value) ==
  IF MapHas(map, key)
  THEN [i \in 1..Len(map) |-> IF map[i].key = key
                              THEN [key |-> key, value |-> value] ELSE map[i]]
  ELSE Append(map, [key |-> key, value |-> value])
MapValues(map) == [i \in 1..Len(map) |-> map[i].value]

\* VisaKeyRegistry.base64urlEncode(bytes)
base64urlEncode(bytes) ==
  RemoveChar(ReplaceChar(ReplaceChar(ToStringBase64(bytes), "+", "-"), "/", "_"), "=")

\* ed25519ToJWK as it would be if it encoded the base58 text, not the bytes
\* the text stands for.
ed25519ToJWKOfText(publicKeyBase58, keyId) ==
  Ok([kty |-> "OKP", kid |-> keyId, use |-> "sig", alg |-> "EdDSA",
      crv |-> "Ed25519", x |-> base64urlEncode(TextEncode(publicKeyBase58))])

\* ed25519ToJWK(publicKeyBase58, keyId): the JWK, or what bs58.decode throws.
ed25519ToJWK(publicKeyBase58, keyId) ==
  LET publicKeyBytes == Bs58Decode(publicKeyBase58)
  IN  IF publicKeyBytes.thrown THEN Thrown
      ELSE Ok([kty |-> "OKP", kid |-> keyId, use |-> "sig", alg |-> "EdDSA",
               crv |-> "Ed25519", x |-> base64urlEncode(publicKeyBytes.value)])

\* new VisaKeyRegistry(tapSigner, visaClient)
VisaKeyRegistry(signer) == [tapSigner |-> signer, registeredKeys |-> <<>>]

\* getJWKS as it would be if it answered from the map without the set.
getJWKSNoSet(this) ==
  [thrown |-> FALSE, this |-> this, keys |-> MapValues(this.registeredKeys)]

\* getJWKS as it would be if it listed the map before the set.
getJWKSListingFirst(this) ==
  LET currentJWK == ed25519ToJWK(getPublicKey(this.tapSigner), getKeyId(this.tapSigner))
  IN  [thrown |-> FALSE,
       this |-> [this EXCEPT !.registeredKeys =
                   MapSet(@, getKeyId(this.tapSigner), currentJWK.value)],
       keys |-> MapValues(this.registeredKeys)]

\* getJWKS(): the registry after the call and the keys returned.
getJWKS(this) ==
  LET currentJWK == ed25519ToJWK(getPublicKey(this.tapSigner), getKeyId(this.tapSigner))
      after == [this EXCEPT !.registeredKeys =
                  MapSet(@, getKeyId(this.tapSigner), currentJWK.value)]
  IN  IF currentJWK.thrown THEN [thrown |-> TRUE, this |-> this, keys |-> <<>>]
      ELSE [thrown |-> FALSE, this |-> after, keys |-> MapValues(after.registeredKeys)]

\* registerWithVisa(): visaResolves tells whether visaClient.registerAgent
\* resolved; when it rejected, the catch rethrows before the map is touched.
registerWithVisa(this, visaResolves) ==
  LET keyId == getKeyId(this.tapSigner)
      jwk == ed25519ToJWK(getPublicKey(this.tapSigner), keyId)
  IN  IF ~visaResolves \/ jwk.thrown THEN [thrown |-> TRUE, this |-> this]
      ELSE [thrown |-> FALSE,
            this |-> [this EXCEPT !.registeredKeys = MapSet(@, keyId, jwk.value)]]

\* rotateKey as it would be if it stored the new JWK before the Visa call.
rotateKeyStoringFirst(this, newSigner, visaResolves) ==
  LET newKeyId == getKeyId(newSigner)
      newJWK == ed25519ToJWK(getPublicKey(newSigner), newKeyId)
      stored == [this EXCEPT !.registeredKeys = MapSet(@, newKeyId, newJWK.value)]
  IN  IF newJWK.thrown THEN [thrown |-> TRUE, this |-> this]
      ELSE IF ~visaResolves THEN [thrown |-> TRUE, this |-> stored]
      ELSE [thrown |-> FALSE, this |-> [stored EXCEPT !.tapSigner = newSigner]]

\* rotateKey(newSigner): visaResolves tells whether visaClient.updateAgentKey
\* resolved; when it rejected, rotateKey rejects before the map and the signer
\* are touched.
rotateKey(this, newSigner, visaResolves) ==
  LET newKeyId == getKeyId(newSigner)
      newJWK == ed25519ToJWK(getPublicKey(newSigner), newKeyId)
  IN  IF ~visaResolves \/ newJWK.thrown THEN [thrown |-> TRUE, this |-> this]
      ELSE [thrown |-> FALSE,
            this |-> [tapSigner |-> newSigner,
                      registeredKeys |-> MapSet(this.registeredKeys, newKeyId,
                                                newJWK.value)]]

\* rotateKey up to its await, as it would be if it stored the new JWK before
\* the Visa call.
rotateKeyToAwaitStoring(this, newSigner) ==
  LET newKeyId == getKeyId(newSigner)
      newJWK == ed25519ToJWK(getPublicKey(newSigner), newKeyId)
  IN  IF newJWK.thrown THEN [thrown |-> TRUE, this |-> this, frame |-> <<>>]
      ELSE [thrown |-> FALSE,
            this |-> [this EXCEPT !.registeredKeys = MapSet(@, newKeyId, newJWK.value)],
            frame |-> <<[newSigner |-> newSigner, newKeyId |-> newKeyId,
                         newJWK |-> newJWK.value]>>]

\* rotateKey(newSigner) up to its await of visaClient.updateAgentKey: the
\* registry, untouched, and the locals of the suspended call.
rotateKeyToAwait(this, newSigner) ==
  LET newKeyId == getKeyId(newSigner)
      newJWK == ed25519ToJWK(getPublicKey(newSigner), newKeyId)
  IN  IF newJWK.thrown THEN [thrown |-> TRUE, this |-> this, frame |-> <<>>]
      ELSE [thrown |-> FALSE, this |-> this,
            frame |-> <<[newSigner |-> newSigner, newKeyId |-> newKeyId,
                         newJWK |-> newJWK.value]>>]

\* rotateKey from its await on, when the Visa call resolved: the set and the
\* assignment of the signer, with nothing awaited in between.
rotateKeyFromAwait(this, frame) ==
  [tapSigner |-> frame.newSigner,
   registeredKeys |-> MapSet(this.registeredKeys, frame.newKeyId, frame.newJWK)]

(***************************************************************************)
(* SolanaAgent.chatQuery (defi-agent/src/agent/solanaAgent.ts).  The        *)
(* conversation history is a Map from userId to an array of messages; the  *)
(* array of a user is made once and every call pushes onto that array.      *)
(***************************************************************************)

MapGet(map, key) == map[CHOOSE i \in 1..Len(map) : map[i].key = key].value

\* The messages chatQuery keeps: the 20 of "if (history.length > 20)".
HistoryLimit == 20

\* history.splice(0, history.length - 20) when history.length > 20
TrimHistory(history) ==
  IF Len(history) > HistoryLimit
  THEN SubSeq(history, Len(history) - HistoryLimit + 1, Len(history))
  ELSE history

\* chatQuery(query, userId) up to its await of intelligence.processChat: the
\* Map with the user's message pushed.
chatQueryToAwait(histories, query, userId, date) ==
  LET made == IF MapHas(histories, userId) THEN histories
              ELSE MapSet(histories, userId, <<>>)
  IN  MapSet(made, userId,
             Append(MapGet(made, userId),
                    [role |-> "user", content |-> query, timestamp |-> date]))

\* chatQuery from its await on, when processChat resolved with aiResponse: the
\* Map, and the response returned.
chatQueryFromAwait(histories, userId, aiResponse, date) ==
  [histories |->
     MapSet(histories, userId,
            TrimHistory(Append(MapGet(histories, userId),
                               [role |-> "assistant", content |-> aiResponse,
                                timestamp |-> date]))),
   returned |-> aiResponse]

\* chatQuery from its await on, when processChat rejected: the catch block
\* answers with a fallback text and does not touch the history.
LitSorry == "Sorry, I encountered an error processing your query. Please try again."
chatQueryCatch(histories, userId) ==
  [histories |-> histories, returned |-> LitSorry]

(***************************************************************************)
(* VisaAuth (tap-agent/src/visa/visaAuth.ts) and the webhook route of       *)
(* createVisaRoutes (tap-agent/src/index.ts).  `this' is the record         *)
(* [apiKey, sharedSecret] of this.config.  An object with string values is  *)
(* the sequence of its [key, value] entries in insertion order.             *)
(***************************************************************************)

HexLower == <<"0", "1", "2", "3", "4", "5", "6", "7", "8", "9", "a", "b", "c", "d", "e", "f">>
HexUpper == <<"0", "1", "2", "3", "4", "5", "6", "7", "8", "9", "A", "B", "C", "D", "E", "F">>

\* Flatten a sequence of texts.
RECURSIVE Concat(_)
Concat(texts) == IF texts = <<>> THEN <<>> ELSE Head(texts) \o Concat(Tail(texts))

\* hmac.digest('hex'): two lower-case hex digits a byte.
ToHex(bytes) ==
  Concat([i \in 1..Len(bytes) |->
            <<HexLower[(bytes[i] \div 16) + 1], HexLower[(bytes[i] % 16) + 1]>>])

\* The bytes of a SHA-256 digest.
Sha256Bytes == 32

\* crypto.createHmac('sha256', secret).update(message).digest('hex'): a keyed
\* checksum of 32 bytes over the bytes of the message, every byte of which
\* depends on the key and on the length of the message.
HmacSha256Hex(secret, message) ==
  LET sum == SignatureBytes(TextEncode(message), TextEncode(secret))
  IN  ToHex([i \in 1..Sha256Bytes |-> (sum[i] + 5 * sum[i + Sha256Bytes]) % 256])

\* text.split(sep) for a separator of one character.
RECURSIVE Split(_, _)
Split(text, sep) ==
  LET hits == {i \in 1..Len(text) : text[i] = sep}
  IN  IF hits = {} THEN <<text>>
      ELSE LET i == Min(hits)
           IN  <<SubSeq(text, 1, i - 1)>> \o Split(SubSeq(text, i + 1, Len(text)), sep)

\* s.join(sep)
RECURSIVE Join(_, _)
Join(texts, sep) ==
  IF texts = <<>> THEN <<>>
  ELSE IF Len(texts) = 1 THEN texts[1]
  ELSE texts[1] \o sep \o Join(Tail(texts), sep)

IsDigit(c) == \E d \in 1..10 : Digits[d] = c
DigitValue(c) == (CHOOSE d \in 1..10 : Digits[d] = c) - 1

RECURSIVE DigitsValue(_, _)
DigitsValue(text, acc) ==
  IF text = <<>> THEN acc
  ELSE DigitsValue(Tail(text), 10 * acc + DigitValue(Head(text)))

\* parseInt(text): white space is skipped, a sign is read, and the digits up
\* to the first character that is none; <<>> is NaN.
parseInt(text) ==
  LET starts == {i \in 1..Len(text) : ~IsAsciiWhitespace(text[i])}
      from == IF starts = {} THEN Len(text) + 1 ELSE Min(starts)
      signed == from <= Len(text) /\ text[from] \in {"-", "+"}
      first == IF signed THEN from + 1 ELSE from
      stops == {i \in first..Len(text) : ~IsDigit(text[i])}
      last == IF stops = {} THEN Len(text) ELSE Min(stops) - 1
      value == DigitsValue(SubSeq(text, first, last), 0)
  IN  IF last < first THEN <<>>
      ELSE IF signed /\ text[from] = "-" THEN <<0 - value>> ELSE <<value>>

\* a < b for strings, as Array.prototype.sort compares them: by code units.
TextLess(a, b) ==
  \E i \in 1..(Len(b)) :
    /\ \A j \in 1..(i - 1) : j <= Len(a) /\ a[j] = b[j]
    /\ \/ i = Len(a) + 1
       \/ i <= Len(a) /\ CharCode[a[i]] < CharCode[b[i]]

\* Object.keys(params).sort()
SortedKeys(params) ==
  LET n == Len(params)
      rank(i) == Cardinality({j \in 1..n : TextLess(params[j].key, params[i].key)})
  IN  [r \in 1..n |-> params[CHOOSE i \in 1..n : rank(i) = r - 1].key]

\* A-Z a-z 0-9 - _ . ! ~ * ' ( ): what encodeURIComponent leaves as it is.
IsUnreserved(c) ==
  IsWordChar(c) \/ c \in {"-", ".", "!", "~", "*", "'", "(", ")"}

\* encodeURIComponent(text), for characters of one byte.
encodeURIComponent(text) ==
  Concat([i \in 1..Len(text) |->
            IF IsUnreserved(text[i]) THEN <<text[i]>>
            ELSE <<"%", HexUpper[(CharCode[text[i]] \div 16) + 1],
                   HexUpper[(CharCode[text[i]] % 16) + 1]>>])

\* createQueryString(params)
createQueryString(params) ==
  IF Len(params) = 0 THEN <<>>
  ELSE LET sortedKeys == SortedKeys(params)
           queryPairs == [i \in 1..Len(sortedKeys) |->
                            sortedKeys[i] \o <<"=">>
                              \o encodeURIComponent(MapGet(params, sortedKeys[i]))]
       IN  <<"?">> \o Join(queryPairs, <<"&">>)

\* JSON.stringify of a string: quoted, with the quote, the backslash and the
\* line break escaped.
JsonString(text) ==
  <<"\"">>
    \o Concat([i \in 1..Len(text) |->
                 IF text[i] = "\"" THEN <<"\\", "\"">>
                 ELSE IF text[i] = "\\" THEN <<"\\", "\\">>
                 ELSE IF text[i] = "\n" THEN <<"\\", "n">>
                 ELSE <<text[i]>>])
    \o <<"\"">>

\* JSON.stringify of an object with string values.
JsonStringify(object) ==
  <<"{">>
    \o Join([i \in 1..Len(object) |->
               JsonString(object[i].key) \o <<":">> \o JsonString(object[i].value)],
            <<",">>)
    \o <<"}">>

\* The message both generateXPayToken and verifyXPayToken build; requestBody
\* is an object (express.json() parsed it), which is truthy and no string.
XPayMessage(timestamp, resourcePath, queryParams, requestBody) ==
  timestamp \o resourcePath \o createQueryString(queryParams)
    \o JsonStringify(requestBody)

LitXv2 == <<"x", "v", "2">>

\* generateXPayToken(resourcePath, queryParams, requestBody)
generateXPayToken(this, resourcePath, queryParams, requestBody, dateNow) ==
  LET timestamp == ToDecimal(dateNow)
      hash == HmacSha256Hex(this.sharedSecret,
                            XPayMessage(timestamp, resourcePath, queryParams, requestBody))
  IN  LitXv2 \o <<":">> \o timestamp \o <<":">> \o hash

\* The seconds a token's timestamp may differ from the clock.
XPayWindow == 300

\* crypto.timingSafeEqual(Buffer.from(a), Buffer.from(b)): throws when the
\* lengths differ.
TimingSafeEqual(a, b) == IF Len(a) # Len(b) THEN Thrown ELSE Ok(a = b)

\* verifyXPayToken(token, resourcePath, queryParams, requestBody).  A NaN
\* tokenTime makes Math.abs(...) NaN and the comparison with 300 false.
verifyXPayToken(this, token, resourcePath, queryParams, requestBody, dateNow) ==
  LET parts == Split(token, ":")
      timestamp == parts[2]
      receivedHash == parts[3]
      tokenTime == parseInt(timestamp)
      expectedHash == HmacSha256Hex(this.sharedSecret,
                        XPayMessage(timestamp, resourcePath, queryParams, requestBody))
      equal == TimingSafeEqual(receivedHash, expectedHash)
  IN  IF Len(parts) # 3 \/ parts[1] # LitXv2 THEN FALSE
      ELSE IF tokenTime # <<>> /\ (dateNow - tokenTime[1] > XPayWindow
                                   \/ tokenTime[1] - dateNow > XPayWindow)
      THEN FALSE
      ELSE IF equal.thrown THEN FALSE
      ELSE equal.value

KeyEventType == <<"e", "v", "e", "n", "t", "T", "y", "p", "e">>

\* The handler of POST /api/visa/webhook.  req.xPayToken is the x-pay-token
\* header, <<>> when the request has none; the empty string is falsy too.
\* The response's timestamp is left out.
postWebhook(visaAuth, req, dateNow) ==
  LET xPayToken == req.xPayToken
      checked == xPayToken # <<>> /\ xPayToken[1] # <<>>
      isValid == verifyXPayToken(visaAuth, xPayToken[1], req.path, req.query,
                                 req.body, dateNow)
      eventType == IF MapHas(req.body, KeyEventType)
                   THEN <<MapGet(req.body, KeyEventType)>> ELSE <<>>
  IN  IF checked /\ ~isValid THEN [status |-> 401, received |-> FALSE]
      ELSE [status |-> 200, received |-> TRUE, eventType |-> eventType]

(***************************************************************************)
(* Numbers.  A JavaScript number of the round-up engine is an IEEE 754       *)
(* double.  The record [cents |-> c, err |-> e, p |-> p] is the double       *)
(*     (c * 2^p + e) / (100 * 2^p),                                          *)
(* that is c / 100 and e units of 2^-p / 100 more, where 2^-p is the         *)
(* spacing of the doubles at c / 100.  Amounts are positive.                 *)
(***************************************************************************)

\* The bits of a double's significand after the first, and the cents of 1.
MantissaBits == 52
CentsPerUnit == 100

\* (x * 2^n) % m
RECURSIVE DoubleMod(_, _, _)
DoubleMod(x, n, m) == IF n = 0 THEN x % m ELSE DoubleMod((2 * x) % m, n - 1, m)

RECURSIVE Pow2(_)
Pow2(n) == IF n = 0 THEN 1 ELSE 2 * Pow2(n - 1)

\* floor(log2(c / 100)) for c >= 1.
RECURSIVE Log2Up(_, _)
Log2Up(c, k) == IF CentsPerUnit * Pow2(k + 1) > c THEN k ELSE Log2Up(c, k + 1)
RECURSIVE Log2Down(_, _)
Log2Down(c, k) == IF c * Pow2(k) >= CentsPerUnit THEN 0 - k ELSE Log2Down(c, k + 1)
Log2Floor(c) == IF c >= CentsPerUnit THEN Log2Up(c, 0) ELSE Log2Down(c, 1)

\* The p of the doubles at c / 100.
ExponentOf(c) == IF c = 0 THEN 0 ELSE MantissaBits - Log2Floor(c)

\* The double nearest to c / 100, as the parser of a number literal with two
\* decimals (JSON.parse, parseFloat) makes it: c * 2^p / 100 rounded to the
\* nearest integer, a tie to the even one.
NumberOfCents(c) ==
  LET p == ExponentOf(c)
      rem2 == DoubleMod(c, p, 2 * CentsPerUnit)
      rem == rem2 % CentsPerUnit
      odd == rem2 >= CentsPerUnit
      half == CentsPerUnit \div 2
  IN  [cents |-> c, p |-> p,
       err |-> IF rem < half \/ (rem = half /\ ~odd) THEN 0 - rem
               ELSE CentsPerUnit - rem]

\* x < y, for doubles as near to their cents as these are.
NumberLess(x, y) ==
  \/ x.cents < y.cents
  \/ x.cents = y.cents /\ x.err * Pow2(Max({x.p, y.p}) - x.p)
                            < y.err * Pow2(Max({x.p, y.p}) - y.p)

\* Math.ceil(amount): whole units, as cents.
MathCeil(amount) ==
  IF amount.cents % CentsPerUnit = 0 THEN amount.cents
  ELSE (amount.cents \div CentsPerUnit + 1) * CentsPerUnit

\* whole - amount for the whole number Math.ceil(amount) and an amount of at
\* least a half: the difference of two doubles within a factor of two of each
\* other is a double, so the subtraction is exact; it is written with the p
\* of the doubles at the difference.
MinusFromCeil(whole, amount) ==
  LET c == whole - amount.cents
      p == ExponentOf(c)
  IN  IF c = 0 THEN [cents |-> 0, p |-> 0, err |-> 0]
      ELSE [cents |-> c, p |-> p, err |-> (0 - amount.err) * Pow2(p - amount.p)]

\* x + y for multiples of a quarter (err = 0), whose sum is a multiple of a
\* quarter and so a double: the addition is exact.
Plus(x, y) == NumberOfCents(x.cents + y.cents)

\* Number.prototype.toString for the double nearest to c / 100, which is the
\* shortest decimal that reads back as it: the whole part, and the decimals
\* without trailing zeros.
NumberToString(x) ==
  LET whole == ToDecimal(x.cents \div CentsPerUnit)
      tens == (x.cents % CentsPerUnit) \div 10
      ones == x.cents % 10
  IN  IF tens = 0 /\ ones = 0 THEN whole
      ELSE IF ones = 0 THEN whole \o <<".", Digits[tens + 1]>>
      ELSE whole \o <<".", Digits[tens + 1], Digits[ones + 1]>>

\* parseFloat(text) for a decimal text with at most two decimals: the digits
\* before the point, and those after.
parseFloat(text) ==
  LET parts == Split(text, ".")
      decimals == IF Len(parts) >= 2 THEN parts[2] ELSE <<>>
      padded == SubSeq(decimals \o <<"0", "0">>, 1, 2)
  IN  NumberOfCents(DigitsValue(parts[1], 0) * CentsPerUnit + DigitsValue(padded, 0))

(***************************************************************************)
(* RoundUpEngine (unnamed/part_007) over the Redis server.                  *)
(***************************************************************************)

\* calculateRoundUp(amount): Math.ceil(amount) - amount
calculateRoundUp(amount) == MinusFromCeil(MathCeil(amount), amount)

\* private readonly THRESHOLD = 10.00
THRESHOLD == NumberOfCents(10 * CentsPerUnit)

\* JSON.stringify of an object whose values are given as JSON text.
JsonObject(entries) ==
  <<"{">>
    \o Join([i \in 1..Len(entries) |->
               JsonString(entries[i].key) \o <<":">> \o entries[i].value],
            <<",">>)
    \o <<"}">>

Member(key, value) == [key |-> key, value |-> value]

\* JSON.stringify(roundUpData)
RoundUpDataJson(data) ==
  JsonObject(<<Member(<<"u", "s", "e", "r", "I", "d">>, JsonString(data.userId)),
               Member(<<"t", "r", "a", "n", "s", "a", "c", "t", "i", "o", "n", "I", "d">>, JsonString(data.transactionId)),
               Member(<<"o", "r", "i", "g", "i", "n", "a", "l", "A", "m", "o", "u", "n", "t">>, NumberToString(data.originalAmount)),
               Member(<<"r", "o", "u", "n", "d", "U", "p", "A", "m", "o", "u", "n", "t">>, NumberToString(data.roundUpAmount)),
               Member(<<"a", "c", "c", "u", "m", "u", "l", "a", "t", "e", "d", "T", "o", "t", "a", "l">>, NumberToString(data.accumulatedTotal))>>)

\* Date.now(): the milliseconds of the clock's second, as digits.
DateNowText(dateNow) == ToDecimal(dateNow) \o <<"0", "0", "0">>

LitDefiChannel == <<"d", "e", "f", "i", "-", "a", "g", "e", "n", "t", "-", "c", "h", "a", "n", "n", "e", "l">>

\* JSON.stringify(message) of triggerDeFiDeposit(userId, amount)
TriggerMessageJson(userId, amount, dateNow) ==
  JsonObject(<<Member(<<"i", "d">>, JsonString(<<"t", "r", "i", "g", "g", "e", "r", "_">> \o userId \o <<"_">> \o DateNowText(dateNow))),
               Member(<<"t", "y", "p", "e">>, JsonString(<<"R", "O", "U", "N", "D", "_", "U", "P", "_", "T", "R", "I", "G", "G", "E", "R">>)),
               Member(<<"t", "i", "m", "e", "s", "t", "a", "m", "p">>, DateNowText(dateNow)),
               Member(<<"p", "a", "y", "l", "o", "a", "d">>,
                      JsonObject(<<Member(<<"u", "s", "e", "r", "I", "d">>, JsonString(userId)),
                                   Member(<<"a", "m", "o", "u", "n", "t">>, NumberToString(amount)),
                                   Member(<<"r", "e", "a", "s", "o", "n">>, JsonString(<<"t", "h", "r", "e", "s", "h", "o", "l", "d", "_", "r", "e", "a", "c", "h", "e", "d">>))>>)),
               Member(<<"a", "g", "e", "n", "t", "I", "d">>, JsonString(<<"t", "a", "p", "-", "a", "g", "e", "n", "t">>))>>)

\* The condition of the trigger as it would be without its second half.
ShouldTriggerAtOrAbove(currentTotal, newTotal) == ~NumberLess(newTotal, THRESHOLD)

\* newTotal >= this.THRESHOLD && currentTotal < this.THRESHOLD
ShouldTrigger(currentTotal, newTotal) ==
  ~NumberLess(newTotal, THRESHOLD) /\ NumberLess(currentTotal, THRESHOLD)

\* getAccumulatedTotal's "total ? parseFloat(total) : 0" for the reply of
\* redis.get: null and the empty string are falsy.
AccumulatedTotalOf(total) ==
  IF total # <<>> /\ total[1] # <<>> THEN parseFloat(total[1]) ELSE NumberOfCents(0)

\* processRoundUp(userId, transactionId, originalAmount) up to its first
\* await: the locals of the call, which waits for the reply of redis.get.
processRoundUpToAwait(userId, transactionId, originalAmount) ==
  [userId |-> userId, transactionId |-> transactionId,
   originalAmount |-> originalAmount,
   roundUpAmount |-> calculateRoundUp(originalAmount),
   currentTotal |-> <<>>, accumulatedTotal |-> <<>>, pc |-> "get"]

\* roundUpData of a call past its read.
RoundUpDataOf(call) ==
  [userId |-> call.userId, transactionId |-> call.transactionId,
   originalAmount |-> call.originalAmount, roundUpAmount |-> call.roundUpAmount,
   accumulatedTotal |-> call.accumulatedTotal[1]]

\* One call from one await to the next: Redis runs the command the call waits
\* for, and the call runs on to its next command, or to its return (pc "done").
\*   get:     redis.get of the total; currentTotal, newTotal
\*   setex:   storeRoundUp's redis.setex of the record
\*   set:     storeRoundUp's redis.set of the total
\*   lpush:   storeRoundUp's redis.lpush; then the test of the threshold
\*   publish: triggerDeFiDeposit's redis.publish
processRoundUpResume(server, call, dateNow) ==
  CASE call.pc = "get" ->
         LET currentTotal == AccumulatedTotalOf(server.total)
         IN  [redis |-> server,
              call |-> [call EXCEPT !.currentTotal = <<currentTotal>>,
                                    !.accumulatedTotal =
                                       <<Plus(currentTotal, call.roundUpAmount)>>,
                                    !.pc = "setex"]]
    [] call.pc = "setex" ->
         [redis |-> [server EXCEPT !.records =
                       MapSet(@, call.transactionId, RoundUpDataJson(RoundUpDataOf(call)))],
          call |-> [call EXCEPT !.pc = "set"]]
    [] call.pc = "set" ->
         [redis |-> [server EXCEPT !.total = <<NumberToString(call.accumulatedTotal[1])>>],
          call |-> [call EXCEPT !.pc = "lpush"]]
    [] call.pc = "lpush" ->
         [redis |-> [server EXCEPT !.roundups =
                       <<RoundUpDataJson(RoundUpDataOf(call))>> \o @],
          call |-> [call EXCEPT !.pc =
                      IF ShouldTrigger(call.currentTotal[1], call.accumulatedTotal[1])
                      THEN "publish" ELSE "done"]]
    [] call.pc = "publish" ->
         [redis |-> [server EXCEPT !.channel =
                       Append(@, [channel |-> LitDefiChannel,
                                  message |-> TriggerMessageJson(call.userId,
                                                call.accumulatedTotal[1], dateNow)])],
          call |-> [call EXCEPT !.pc = "done"]]

\* A call run from its first await to its return with no other call in between.
RECURSIVE RunToReturn(_, _)
RunToReturn(at, dateNow) ==
  IF at.call.pc = "done" THEN at
  ELSE RunToReturn(processRoundUpResume(at.redis, at.call, dateNow), dateNow)

\* processRoundUp(userId, transactionId, originalAmount) as one step: the
\* server after it, and the call at its return.
processRoundUp(server, userId, transactionId, originalAmount, dateNow) ==
  RunToReturn([redis |-> server,
               call |-> processRoundUpToAwait(userId, transactionId, originalAmount)],
              dateNow)

(***************************************************************************)
(* The inputs of the model                                                 *)
(***************************************************************************)

\* The first clock value, Math.floor(Date.now() / 1000) at start-up.
T0 == 1700000000

\* The clock values the model visits: the start, and the first second after
\* the validity window of an envelope created at the start.
ClockValues == {T0, T0 + ValidityWindow + 1}

Seed1 == [i \in 1..32 |-> (7 * i) % 256]
Seed2 == [i \in 1..32 |-> (11 * i + 1) % 256]
Seed3 == [i \in 1..32 |-> (13 * i + 2) % 256]

\* process.env.TAP_PRIVATE_KEY and process.env.TAP_KEY_ID: <<>> when unset.
PrivateKey2 == Bs58Encode(NaclKeyPair(Seed2).secretKey)
EnvKeyId == <<"a", "g", "e", "n", "t", "-", "1">>
Environments ==
  { [TAP_PRIVATE_KEY |-> <<>>, TAP_KEY_ID |-> <<>>],
    [TAP_PRIVATE_KEY |-> <<PrivateKey2>>, TAP_KEY_ID |-> <<EnvKeyId>>] }

\* Every combination of the constructor's arguments.
ConstructorArguments ==
  { [TAP_PRIVATE_KEY |-> k, TAP_KEY_ID |-> i] :
      k \in {<<>>, <<PrivateKey2>>}, i \in {<<>>, <<EnvKeyId>>} }

\* The arguments of the signers made for rotation: a fresh key pair, and the
\* same key pair under the key id of the environment.
PrivateKey3 == Bs58Encode(NaclKeyPair(Seed3).secretKey)
RotationArguments ==
  { [TAP_PRIVATE_KEY |-> <<>>, TAP_KEY_ID |-> <<>>],
    [TAP_PRIVATE_KEY |-> <<PrivateKey3>>, TAP_KEY_ID |-> <<EnvKeyId>>] }

\* A public key no signer of the model holds.
OtherPublicKey == PublicKeyOfSeed(Seed3)

Authority1 == <<"a", ".", "i", "o">>
Authority2 == <<"b", ".", "i", "o">>
Path1 == <<"/", "p", "a", "y">>
Path2 == <<"/", "a", "p", "i">>
TagBrowser == <<"a", "g", "e", "n", "t", "-", "b", "r", "o", "w", "s", "e", "r", "-", "a", "u", "t", "h">>
TagPayer == <<"a", "g", "e", "n", "t", "-", "p", "a", "y", "e", "r", "-", "a", "u", "t", "h">>
OtherKeyId == <<"a", "g", "e", "n", "t", "-", "2">>

\* An authority string with a line break in it: no caller's string is checked
\* (TAPRequestData.authority is a string, POST /sign passes req.body's on).
LongAuthority == Authority1 \o LitNewline \o LitPath \o Path2

Authorities == {Authority1, Authority2}
Paths == {Path1, Path2}
Tags == {TagBrowser, TagPayer}
\* A tag that is neither.
TagOther == <<"a", "g", "e", "n", "t", "-", "a", "d", "m", "i", "n">>

\* Nonces of direct signTAPRequest calls: URL-safe text, and padded base64.
PlainNonce == <<"n", "-", "0", "_", "A">>
PaddedNonce == <<"b", "m", "8", "=">>
OtherNonce == <<"n", "-", "0", "_", "B">>
Nonces == {PlainNonce, PaddedNonce}

\* What crypto.randomBytes(64) returns.
RandomBytes ==
  { [i \in 1..RandomBytesLength |-> (37 * i) % 256],
    [i \in 1..RandomBytesLength |-> (255 - i)] }

\* The requests of direct signTAPRequest calls; keyId is the field of
\* TAPRequestData, the signer's own key id (as the routes pass it) or another.
Requests(this) ==
  { [authority |-> x[1], path |-> x[2], keyId |-> x[3], nonce |-> n, tag |-> x[4]] :
      x \in { <<Authority1, Path1, getKeyId(this), TagPayer>>,
              <<Authority2, Path2, OtherKeyId, TagBrowser>> },
      n \in Nonces }
    \cup { [authority |-> LongAuthority, path |-> Path1, keyId |-> getKeyId(this),
            nonce |-> PlainNonce, tag |-> TagPayer] }

\* The bodies of POST /sign requests; <<>> is an absent (or empty) field.
SignBodies ==
  { [authority |-> a, path |-> Path1, tag |-> t] :
      a \in {Authority1, <<>>}, t \in {TagPayer, TagOther} }

(***************************************************************************)
(* The state machine                                                       *)
(***************************************************************************)

VARIABLES
  tapSigner,   \* the service's TAPSigner: [keyPair, keyId]
  now,         \* the clock, Math.floor(Date.now() / 1000)
  envelope,    \* the envelope issued last, with what it was made from; <<>> at start
  res,         \* the last call: its name, its arguments and what it returned
  accepted,    \* the nonces of the envelopes POST /verify has answered valid: true
  processEnv,  \* the TAP_PRIVATE_KEY and TAP_KEY_ID the service's signer was made from
  spare,       \* the other TAPSigner instances there are, for rotateKey
  keyRegistry, \* the VisaKeyRegistry: [tapSigner, registeredKeys]
  rotations,   \* the rotateKey calls suspended at their await, in call order
  linearized,  \* the VisaKeyRegistry the calls make when each is taken as one
               \* step, at the moment it returns
  redis,       \* the Redis server: the keys of the round-up engine and its channel
  roundUps,    \* the processRoundUp calls in progress: their position and locals
  conversationHistory, \* SolanaAgent.conversationHistory: userId -> messages
  chats,       \* the chatQuery calls suspended at their await
  ledger       \* what the processRoundUp calls should add up to: the total before
               \* them, the calls made and the round-ups of the completed calls

rotationVars == <<rotations, linearized>>
engineVars == <<redis, roundUps, ledger>>
otherVars == <<engineVars, conversationHistory, chats>>
vars ==
  <<tapSigner, now, envelope, res, accepted, processEnv, spare, keyRegistry,
    rotationVars, otherVars>>

\* The start of the service (index.ts) from one of the environments in envs.
Start(envs) ==
  /\ processEnv \in envs
  /\ tapSigner = TAPSigner(processEnv.TAP_PRIVATE_KEY, processEnv.TAP_KEY_ID, Seed1).value
  /\ keyRegistry = VisaKeyRegistry(tapSigner)
  /\ now = T0
  /\ envelope = <<>>
  /\ res = [op |-> "start"]
  /\ accepted = {}
  /\ rotations = <<>>
  /\ linearized = keyRegistry
  /\ roundUps = <<>>
  /\ conversationHistory = <<>>
  /\ chats = <<>>

\* A Redis server with no keys and nothing published: the value of
\* roundup:total:<user> (<<>> when the key is not there), the roundup:<user>:<id>
\* keys, the list roundup:list:<user> and the messages published, in order.
EmptyRedis == [total |-> <<>>, records |-> <<>>, roundups |-> <<>>, channel |-> <<>>]

\* No purchase yet.
NoPurchases ==
  /\ redis = EmptyRedis
  /\ ledger = [before |-> NumberOfCents(0), calls |-> 0, roundUps |-> NumberOfCents(0)]

Init == Start(Environments) /\ spare = {} /\ NoPurchases

\* The envelope a signTAPRequest call leaves in flight: what the call returned
\* (env), the request it was made from and the locals of the call.
Issued(via, requestData, dateNow, env) ==
  [via |-> via,
   authority |-> requestData.authority, path |-> requestData.path,
   nonce |-> requestData.nonce, tag |-> requestData.tag,
   created |-> SignCreated(dateNow), expires |-> SignExpires(dateNow),
   keyid |-> tapSigner.keyId,
   signedBase |-> SignSignatureBase(tapSigner, requestData, dateNow),
   env |-> env]

\* Time passes.
Tick ==
  /\ \E t \in ClockValues : t > now /\ now' = t
  /\ UNCHANGED <<tapSigner, envelope, res, accepted, processEnv, spare, keyRegistry, rotationVars, otherVars>>

\* signTAPRequest as it would be if it took the request's keyId for its own.
SignTAPRequestAdoptingKeyId ==
  \E requestData \in Requests(tapSigner) :
    /\ res' = [op |-> "signTAPRequest", requestData |-> requestData,
               dateNow |-> now, result |-> signTAPRequest(tapSigner, requestData, now)]
    /\ envelope' = <<Issued("signTAPRequest", requestData, now, res'.result)>>
    /\ tapSigner' = [tapSigner EXCEPT !.keyId = requestData.keyId]
    /\ UNCHANGED <<now, accepted, processEnv, spare, keyRegistry, rotationVars, otherVars>>

\* A direct call tapSigner.signTAPRequest(requestData).
SignTAPRequest ==
  \E requestData \in Requests(tapSigner) :
    /\ res' = [op |-> "signTAPRequest", requestData |-> requestData,
               dateNow |-> now, result |-> signTAPRequest(tapSigner, requestData, now)]
    /\ envelope' = <<Issued("signTAPRequest", requestData, now, res'.result)>>
    /\ UNCHANGED <<tapSigner, now, accepted, processEnv, spare, keyRegistry, rotationVars, otherVars>>

\* POST /api/tap/sign
PostSign ==
  \E body \in SignBodies, randomBytes \in RandomBytes :
    /\ res' = [op |-> "POST /sign", body |-> body, dateNow |-> now,
               response |-> postSign(tapSigner, body, randomBytes, now)]
    /\ envelope' =
         IF res'.response.status = 200
         THEN <<Issued("POST /sign",
                       [authority |-> body.authority, path |-> body.path,
                        nonce |-> res'.response.nonce, tag |-> body.tag],
                       now, res'.response.signature)>>
         ELSE envelope
    /\ UNCHANGED <<tapSigner, now, accepted, processEnv, spare, keyRegistry, rotationVars, otherVars>>

\* The seven values a verifier rebuilds the signature base from.
Fields(e) ==
  [authority |-> e.authority, path |-> e.path, created |-> e.created,
   keyid |-> e.keyid, expires |-> e.expires, nonce |-> e.nonce, tag |-> e.tag]

BaseOf(f) ==
  createSignatureBase(f.authority, f.path, f.created, f.keyid, f.expires, f.nonce, f.tag)

\* Fields(e) with exactly one of the seven changed.
Tampered(e) ==
  LET f == Fields(e)
  IN  {[f EXCEPT !.authority = a] : a \in Authorities \ {f.authority}}
        \cup {[f EXCEPT !.path = p] : p \in Paths \ {f.path}}
        \cup {[f EXCEPT !.created = f.created + 1]}
        \cup {[f EXCEPT !.keyid = k] : k \in {OtherKeyId} \ {f.keyid}}
        \cup {[f EXCEPT !.expires = f.expires + 1]}
        \cup {[f EXCEPT !.nonce = OtherNonce]}
        \cup {[f EXCEPT !.tag = t] : t \in Tags \ {f.tag}}

\* The tuples other than Fields(e) made by cutting the authority of e at a
\* line break followed by the text that opens the path line, and giving the
\* rest to the path.
Respliced(e) ==
  LET f == Fields(e)
      cut == LitNewline \o LitPath
      At(i) == SubSeq(f.authority, i, i + Len(cut) - 1) = cut
  IN  { [f EXCEPT !.authority = SubSeq(f.authority, 1, i - 1),
                  !.path = SubSeq(f.authority, i + Len(cut), Len(f.authority))
                             \o cut \o f.path] :
          i \in {j \in 1..(Len(f.authority) - Len(cut) + 1) : At(j)} }

\* Signature strings that are no base64url text of 64 bytes: the empty string,
\* the value as emitted (with "sig2=:" and ":"), the encoding cut by one
\* character (no base64 length) and by two (63 bytes), and a character outside
\* the alphabet.
Malformed(e) ==
  LET s == StripWrapper(e.env.Signature)
  IN  { <<>>, e.env.Signature, SubSeq(s, 1, Len(s) - 1), SubSeq(s, 1, Len(s) - 2),
        [s EXCEPT ![1] = "!"] }

\* The public keys of the signers of the model, and the other one.
PublicKeys == {PublicKeyOfSeed(Seed1), PublicKeyOfSeed(Seed2), OtherPublicKey}

\* Public keys of a wrong length.
ShortKeys == { <<>>, SubSeq(OtherPublicKey, 1, crypto_sign_PUBLICKEYBYTES - 1) }

\* The arguments of the direct verifySignature calls on the envelope in flight.
VerifyCalls(e) ==
  LET base == BaseOf(Fields(e))
      sig == StripWrapper(e.env.Signature)
      own == tapSigner.keyPair.publicKey
      call(b, s, k) == [signatureBase |-> b, signature |-> s, publicKey |-> k]
  IN  {call(base, sig, k) : k \in {<<>>} \cup {<<p>> : p \in PublicKeys}}
        \cup {call(BaseOf(f), sig, <<own>>) : f \in Tampered(e) \cup Respliced(e)}
        \cup {call(base, sig, <<k>>) : k \in ShortKeys}
        \cup {call(base, s, k) :
                s \in Malformed(e), k \in {<<>>, <<own>>} \cup {<<j>> : j \in ShortKeys}}

\* A direct call tapSigner.verifySignature(signatureBase, signature, publicKey).
VerifySignature ==
  /\ envelope # <<>>
  /\ \E c \in VerifyCalls(envelope[1]) :
       res' = [op |-> "verifySignature", signatureBase |-> c.signatureBase,
               signature |-> c.signature, publicKey |-> c.publicKey,
               result |-> verifySignature(tapSigner, c.signatureBase, c.signature,
                                          c.publicKey)]
  /\ UNCHANGED <<tapSigner, now, envelope, accepted, processEnv, spare, keyRegistry, rotationVars, otherVars>>

\* The bodies of the POST /verify requests made with the envelope in flight:
\* with no publicKey, with the publicKey text POST /sign returns, with the
\* standard base64 text of the signer's and of another public key, and with
\* another or no authority; and with a number for the signature.
VerifyBodies(e) ==
  LET body(a, k) == [signatureInput |-> e.env.SignatureInput,
                     signature |-> e.env.Signature,
                     authority |-> a, path |-> e.path, publicKey |-> k]
  IN  {body(e.authority, k) :
         k \in { <<>>, <<getPublicKey(tapSigner)>>,
                 <<ToStringBase64(tapSigner.keyPair.publicKey)>>,
                 <<ToStringBase64(OtherPublicKey)>> }}
        \cup {body(a, <<ToStringBase64(tapSigner.keyPair.publicKey)>>) :
                a \in (Authorities \cup {<<>>}) \ {e.authority}}
        \cup {[body(e.authority, <<ToStringBase64(tapSigner.keyPair.publicKey)>>)
                 EXCEPT !.signature = NoString]}

\* POST /api/tap/verify.  res.replay tells whether the nonce of an envelope
\* answered valid: true had been answered valid: true before.
PostVerify ==
  /\ envelope # <<>>
  /\ \E body \in VerifyBodies(envelope[1]) :
       /\ res' = [op |-> "POST /verify", body |-> body, dateNow |-> now,
                  handled |-> postVerify(tapSigner, body),
                  seen |-> accepted]
       /\ accepted' =
            IF res'.handled.response.status = 200 /\ res'.handled.response.valid
            THEN accepted \cup {Param(res'.handled.params, KeyNonce)}
            ELSE accepted
  /\ UNCHANGED <<tapSigner, now, envelope, processEnv, spare, keyRegistry, rotationVars, otherVars>>

\* The service: the routes, and direct calls of the signer that put envelopes
\* with nonces of the caller's choosing in flight.
Next ==
  \/ Tick
  \/ SignTAPRequest
  \/ PostSign
  \/ PostVerify

Spec == Init /\ [][Next]_vars

\* A direct call tapSigner.getPublicKey().
GetPublicKey ==
  /\ res' = [op |-> "getPublicKey", result |-> getPublicKey(tapSigner)]
  /\ UNCHANGED <<tapSigner, now, envelope, accepted, processEnv, spare, keyRegistry, rotationVars, otherVars>>

\* A direct call tapSigner.getKeyId().
GetKeyId ==
  /\ res' = [op |-> "getKeyId", result |-> getKeyId(tapSigner)]
  /\ UNCHANGED <<tapSigner, now, envelope, accepted, processEnv, spare, keyRegistry, rotationVars, otherVars>>

\* The TAPSigner class alone: its public operations, called directly.
NextSigner ==
  \/ Tick
  \/ SignTAPRequest
  \/ VerifySignature
  \/ GetPublicKey
  \/ GetKeyId

SpecSigner == Init /\ [][NextSigner]_vars

\* The key registry with the signers it is given.
InitRegistry ==
  /\ Start(ConstructorArguments)
  /\ spare = { TAPSigner(a.TAP_PRIVATE_KEY, a.TAP_KEY_ID, Seed3).value :
                a \in RotationArguments }
  /\ NoPurchases

\* keyRegistry.getJWKS(), as GET /.well-known/jwks.json calls it.  earlier is
\* what the call before returned, when that was a getJWKS call too.
GetJWKS ==
  /\ res' = [op |-> "getJWKS", result |-> getJWKS(keyRegistry),
             earlier |-> IF res.op = "getJWKS" THEN <<res.result.keys>> ELSE <<>>]
  /\ keyRegistry' = res'.result.this
  /\ linearized' = getJWKS(linearized).this
  /\ UNCHANGED <<tapSigner, now, envelope, accepted, processEnv, spare, rotations, otherVars>>

\* keyRegistry.registerWithVisa(), as POST /api/visa/register calls it.
RegisterWithVisa ==
  \E visaResolves \in BOOLEAN :
    /\ res' = [op |-> "registerWithVisa", visaResolves |-> visaResolves,
               result |-> registerWithVisa(keyRegistry, visaResolves)]
    /\ keyRegistry' = res'.result.this
    /\ linearized' = keyRegistry'
    /\ UNCHANGED <<tapSigner, now, envelope, accepted, processEnv, spare, rotations, otherVars>>

\* keyRegistry.rotateKey(newSigner); before is the registry's signer at the call.
RotateKey ==
  \E newSigner \in spare \cup {tapSigner}, visaResolves \in BOOLEAN :
    /\ res' = [op |-> "rotateKey", newSigner |-> newSigner,
               visaResolves |-> visaResolves, before |-> keyRegistry.tapSigner,
               result |-> rotateKey(keyRegistry, newSigner, visaResolves)]
    /\ keyRegistry' = res'.result.this
    /\ linearized' = keyRegistry'
    /\ UNCHANGED <<tapSigner, now, envelope, accepted, processEnv, spare, rotations, otherVars>>

NextRegistry ==
  \/ GetJWKS
  \/ RegisterWithVisa
  \/ RotateKey

SpecRegistry == InitRegistry /\ [][NextRegistry]_vars

\* The rotateKey calls there can be suspended at their await at one time.
MaxInFlight == 2

Without(seq, i) == [j \in 1..(Len(seq) - 1) |-> IF j < i THEN seq[j] ELSE seq[j + 1]]

\* keyRegistry.rotateKey(newSigner) is called and runs to its await.
RotateKeyCall ==
  /\ Len(rotations) < MaxInFlight
  /\ \E newSigner \in spare \cup {tapSigner} :
       /\ res' = [op |-> "rotateKey called", newSigner |-> newSigner,
                  result |-> rotateKeyToAwait(keyRegistry, newSigner)]
       /\ keyRegistry' = res'.result.this
       /\ rotations' = rotations \o res'.result.frame
  /\ UNCHANGED <<tapSigner, now, envelope, accepted, processEnv, spare, linearized, otherVars>>

\* visaClient.updateAgentKey resolves for one of the suspended calls, which
\* runs to its end.
RotateKeyResolve ==
  \E i \in 1..Len(rotations) :
    /\ res' = [op |-> "rotateKey resolved", newSigner |-> rotations[i].newSigner]
    /\ keyRegistry' = rotateKeyFromAwait(keyRegistry, rotations[i])
    /\ linearized' = rotateKey(linearized, rotations[i].newSigner, TRUE).this
    /\ rotations' = Without(rotations, i)
    /\ UNCHANGED <<tapSigner, now, envelope, accepted, processEnv, spare, otherVars>>

\* visaClient.updateAgentKey rejects for one of the suspended calls, and the
\* call rejects.
RotateKeyReject ==
  \E i \in 1..Len(rotations) :
    /\ res' = [op |-> "rotateKey rejected", newSigner |-> rotations[i].newSigner]
    /\ linearized' = rotateKey(linearized, rotations[i].newSigner, FALSE).this
    /\ rotations' = Without(rotations, i)
    /\ UNCHANGED <<tapSigner, now, envelope, accepted, processEnv, spare, keyRegistry, otherVars>>

\* The key registry with getJWKS calls between the steps of rotateKey calls.
NextRotation ==
  \/ GetJWKS
  \/ RotateKeyCall
  \/ RotateKeyResolve
  \/ RotateKeyReject

\* The service as it starts, and one more signer: another key pair under the
\* key id of the environment.
InitRotation ==
  /\ Start(Environments)
  /\ spare = { TAPSigner(<<PrivateKey3>>, <<EnvKeyId>>, Seed3).value }
  /\ NoPurchases

SpecRotation == InitRotation /\ [][NextRotation]_vars

\* The service started with no key in its environment, and one more signer.
InitWiring ==
  /\ Start({[TAP_PRIVATE_KEY |-> <<>>, TAP_KEY_ID |-> <<>>]})
  /\ spare = { TAPSigner(<<PrivateKey3>>, <<EnvKeyId>>, Seed3).value }
  /\ NoPurchases

\* The signing route and the key registry as index.ts wires them: the routes
\* are given the TAPSigner of start-up, the registry holds its own reference.
NextWiring ==
  \/ RotateKey
  \/ PostSign

SpecWiring == InitWiring /\ [][NextWiring]_vars

\* The chat: one user, the userId chatQuery defaults to, one question with
\* none of the fallback's keywords in it, and one answer.
DefaultUser == "default"
Query1 == "how are my round-ups doing?"
Response1 == "They are invested."

\* The chatQuery calls there can be suspended at one time (calls come one
\* after the other), and the messages of a history beyond which the model
\* makes no further call.
MaxChats == 1
MaxMessages == 22

HistoryOf(userId) ==
  IF MapHas(conversationHistory, userId) THEN MapGet(conversationHistory, userId)
  ELSE <<>>

\* chatQuery(query) is called and runs to its await.
ChatQueryCall ==
  /\ Len(chats) < MaxChats
  /\ Len(HistoryOf(DefaultUser)) < MaxMessages
  /\ conversationHistory' = chatQueryToAwait(conversationHistory, Query1, DefaultUser, now)
  /\ chats' = Append(chats, [query |-> Query1, userId |-> DefaultUser])
  /\ res' = [op |-> "chatQuery called", query |-> Query1]
  /\ UNCHANGED <<tapSigner, now, envelope, accepted, processEnv, spare, keyRegistry,
                 rotationVars, engineVars>>

\* processChat resolves for one of the suspended calls.
ChatQueryResolve ==
  \E i \in 1..Len(chats) :
    LET done == chatQueryFromAwait(conversationHistory, chats[i].userId, Response1, now)
    IN  /\ conversationHistory' = done.histories
        /\ chats' = Without(chats, i)
        /\ res' = [op |-> "chatQuery resolved", result |-> done.returned]
        /\ UNCHANGED <<tapSigner, now, envelope, accepted, processEnv, spare, keyRegistry,
                       rotationVars, engineVars>>

\* processChat rejects for one of the suspended calls (the AI request fails).
ChatQueryFail ==
  \E i \in 1..Len(chats) :
    LET done == chatQueryCatch(conversationHistory, chats[i].userId)
    IN  /\ conversationHistory' = done.histories
        /\ chats' = Without(chats, i)
        /\ res' = [op |-> "chatQuery failed", result |-> done.returned]
        /\ UNCHANGED <<tapSigner, now, envelope, accepted, processEnv, spare, keyRegistry,
                       rotationVars, engineVars>>

NextChat ==
  \/ ChatQueryCall
  \/ ChatQueryResolve
  \/ ChatQueryFail

\* The service started with no key in its environment.
InitIdle ==
  /\ Start({[TAP_PRIVATE_KEY |-> <<>>, TAP_KEY_ID |-> <<>>]})
  /\ spare = {}
  /\ NoPurchases

SpecChat == InitIdle /\ [][NextChat]_vars

\* The VisaAuth of the service, made from VISA_API_KEY and VISA_SHARED_SECRET,
\* and a secret that is not the service's.
VisaConfig == [apiKey |-> <<"v", "i", "s", "a", "-", "a", "p", "i", "-", "k", "e", "y">>, sharedSecret |-> <<"s", "3", "c", "r", "e", "t">>]
OtherSecret == <<"s", "3", "c", "r", "e", "T">>

\* req.path of the webhook route inside its router.
WebhookPath == <<"/", "w", "e", "b", "h", "o", "o", "k">>

KeyData == <<"d", "a", "t", "a">>
\* The events the handler knows, and one it does not.
EventTypes ==
  { <<"a", "g", "e", "n", "t", ".", "s", "t", "a", "t", "u", "s", ".", "c", "h", "a", "n", "g", "e", "d">>,
    <<"c", "o", "m", "p", "l", "i", "a", "n", "c", "e", ".", "a", "l", "e", "r", "t">>,
    <<"t", "r", "a", "n", "s", "a", "c", "t", "i", "o", "n", ".", "v", "e", "r", "i", "f", "i", "e", "d">>,
    <<"a", "g", "e", "n", "t", ".", "d", "e", "l", "e", "t", "e", "d">> }
WebhookBody(eventType) ==
  <<[key |-> KeyEventType, value |-> eventType], [key |-> KeyData, value |-> <<"o", "k">>]>>
WebhookBodies == {WebhookBody(e) : e \in EventTypes}

\* req.query: none, and two parameters out of order, one with a space.
WebhookQueries ==
  { <<>>,
    <<[key |-> <<"b">>, value |-> <<"1">>], [key |-> <<"a">>, value |-> <<"x", " ", "y">>]>> }

\* The x-pay-token headers of the requests: none, the empty string, the token
\* Visa made for this request at the start, and tokens that are not that: made
\* for another body, made with another secret, with another version, with the
\* hash cut short, with a fourth part, and with no hash.
XPayTokens(query, body) ==
  LET made == generateXPayToken(VisaConfig, WebhookPath, query, body, T0)
      other == CHOOSE b \in WebhookBodies : b # body
      parts == Split(made, ":")
  IN  { <<>>, << <<>> >>, <<made>>,
        <<generateXPayToken(VisaConfig, WebhookPath, query, other, T0)>>,
        <<generateXPayToken([VisaConfig EXCEPT !.sharedSecret = OtherSecret],
                            WebhookPath, query, body, T0)>>,
        <<[made EXCEPT ![3] = "1"]>>,
        <<SubSeq(made, 1, Len(made) - 1)>>,
        <<made \o <<":", "0">> >>,
        <<parts[1] \o <<":">> \o parts[2]>> }

\* POST /api/visa/webhook
PostWebhook ==
  \E query \in WebhookQueries, body \in WebhookBodies :
    \E token \in XPayTokens(query, body) :
      LET req == [xPayToken |-> token, path |-> WebhookPath, query |-> query,
                  body |-> body]
      IN  /\ res' = [op |-> "POST /webhook", req |-> req, dateNow |-> now,
                     response |-> postWebhook(VisaConfig, req, now)]
          /\ UNCHANGED <<tapSigner, now, envelope, accepted, processEnv, spare,
                         keyRegistry, rotationVars, otherVars>>

NextWebhook ==
  \/ Tick
  \/ PostWebhook

SpecWebhook == InitIdle /\ [][NextWebhook]_vars

\* The purchase amounts calculateRoundUp is called with: every amount of
\* whole cents from MinAmountCents to MaxAmountCents cents, 23.45 among them.
MinAmountCents == 2300
MaxAmountCents == 2450
AmountCents == MinAmountCents..MaxAmountCents

\* roundupEngine.calculateRoundUp(amount) for an amount a request carries as
\* a JSON number with two decimals.
CalculateRoundUp ==
  \E c \in AmountCents :
    /\ res' = [op |-> "calculateRoundUp", amount |-> NumberOfCents(c),
               result |-> calculateRoundUp(NumberOfCents(c))]
    /\ UNCHANGED <<tapSigner, now, envelope, accepted, processEnv, spare, keyRegistry,
                   rotationVars, otherVars>>

NextRoundUp == CalculateRoundUp

SpecRoundUp == InitIdle /\ [][NextRoundUp]_vars

\* The user of the purchases, and the transaction id of the n-th of them
\* (crypto.randomUUID() in POST /purchase: no two alike).
UserId == <<"u", "s", "e", "r", "-", "1">>
TransactionId(n) == <<"t", "x", "-">> \o ToDecimal(n)

\* The purchase amounts, in cents, each a multiple of a quarter: 3.50, 7.25
\* and 12.00, with round-ups 0.50, 0.75 and 0.
PurchaseCents == {350, 725, 1200}

\* The values of roundup:total:<user> at the start, all below the threshold:
\* no key, and the texts earlier purchases left.
InitialTotals == { <<>>, <<<<"9", ".", "5">>>>, <<<<"9", ".", "2", "5">>>> }

\* The processRoundUp calls of a run, and those in progress at one time.
MaxPurchases == 3
MaxCalls == 2

\* The round-up engine at the start of the purchases.
InitLedger ==
  /\ Start({[TAP_PRIVATE_KEY |-> <<>>, TAP_KEY_ID |-> <<>>]})
  /\ spare = {}
  /\ \E total \in InitialTotals : redis = [EmptyRedis EXCEPT !.total = total]
  /\ ledger = [before |-> AccumulatedTotalOf(redis.total), calls |-> 0,
               roundUps |-> NumberOfCents(0)]

\* roundupEngine.processRoundUp(userId, transactionId, amount), from its call
\* to its return with no other call in between.
ProcessRoundUp ==
  /\ ledger.calls < MaxPurchases
  /\ \E c \in PurchaseCents :
       LET ran == processRoundUp(redis, UserId, TransactionId(ledger.calls + 1),
                                 NumberOfCents(c), now)
       IN  /\ redis' = ran.redis
           /\ res' = [op |-> "processRoundUp", dateNow |-> now,
                      currentTotal |-> ran.call.currentTotal[1],
                      returned |-> RoundUpDataOf(ran.call),
                      published |-> Len(ran.redis.channel) > Len(redis.channel)]
           /\ ledger' = [ledger EXCEPT !.calls = @ + 1,
                                       !.roundUps = Plus(@, ran.call.roundUpAmount)]
  /\ UNCHANGED <<tapSigner, now, envelope, accepted, processEnv, spare, keyRegistry,
                 rotationVars, roundUps, conversationHistory, chats>>

\* Purchases processed one at a time.
NextLedger == ProcessRoundUp

SpecLedger == InitLedger /\ [][NextLedger]_vars

\* processRoundUp is called and runs to its first await.
ProcessRoundUpCall ==
  /\ ledger.calls < MaxPurchases
  /\ Len(roundUps) < MaxCalls
  /\ \E c \in PurchaseCents :
       roundUps' = Append(roundUps,
                          processRoundUpToAwait(UserId, TransactionId(ledger.calls + 1),
                                                NumberOfCents(c)))
  /\ ledger' = [ledger EXCEPT !.calls = @ + 1]
  /\ res' = [op |-> "processRoundUp called"]
  /\ UNCHANGED <<tapSigner, now, envelope, accepted, processEnv, spare, keyRegistry,
                 rotationVars, redis, conversationHistory, chats>>

\* Redis runs the command one of the calls in progress waits for, and that
\* call runs to its next await, or returns.
ProcessRoundUpResume ==
  /\ \E i \in 1..Len(roundUps) :
       LET at == processRoundUpResume(redis, roundUps[i], now)
       IN  /\ redis' = at.redis
           /\ IF at.call.pc = "done"
              THEN /\ roundUps' = Without(roundUps, i)
                   /\ res' = [op |-> "processRoundUp returned",
                              returned |-> RoundUpDataOf(at.call)]
                   /\ ledger' = [ledger EXCEPT
                                   !.roundUps = Plus(@, at.call.roundUpAmount)]
              ELSE /\ roundUps' = [roundUps EXCEPT ![i] = at.call]
                   /\ res' = [op |-> "processRoundUp resumed"]
                   /\ ledger' = ledger
  /\ UNCHANGED <<tapSigner, now, envelope, accepted, processEnv, spare, keyRegistry,
                 rotationVars, conversationHistory, chats>>

\* Purchases of one user processed at the same time.
NextPurchases ==
  \/ ProcessRoundUpCall
  \/ ProcessRoundUpResume

SpecPurchases == InitLedger /\ [][NextPurchases]_vars

(***************************************************************************)
(* Properties                                                              *)
(***************************************************************************)

\* The envelope in flight and the key the last verifySignature call used.
InFlight == envelope[1]
OwnKey == tapSigner.keyPair.publicKey
Stripped == StripWrapper(InFlight.env.Signature)
IsVerifyCall == res.op = "verifySignature" /\ envelope # <<>>
OnSignedBase == IsVerifyCall /\ res.signatureBase = BaseOf(Fields(InFlight))

\* C1: verifySignature returns true for the base rebuilt from the authority,
\* the path and the created, keyid, expires, nonce and tag of an envelope of
\* signTAPRequest, the envelope's Signature without "sig2=:" and ":", and the
\* signer's own public key, whatever calls went before.
IsRoundTripCall ==
  OnSignedBase /\ res.signature = Stripped /\ res.publicKey = <<OwnKey>>
RoundTripVerifies == IsRoundTripCall => res.result = Ok(TRUE)
RoundTripWitness ==
  /\ IsRoundTripCall /\ res.result = Ok(TRUE)
  /\ InFlight.nonce = PaddedNonce /\ InFlight.created > T0

\* C2: the envelope of every signTAPRequest call carries expires = created + 480,
\* in the Signature-Input it returns and in the base it signed, for every
\* request and every clock value.
WindowOf(text) ==
  LET params == parseSignatureInput(text)
  IN  \E c \in ClockValues :
        /\ Param(params, KeyCreated) = ToDecimal(c)
        /\ Param(params, KeyExpires) = ToDecimal(c + 480)
ExpiresIsCreatedPlus480 ==
  res.op = "signTAPRequest" =>
    /\ WindowOf(res.result.SignatureInput)
    /\ WindowOf(InFlight.signedBase)
    /\ InFlight.expires = InFlight.created + 480
ExpiresWitness ==
  /\ res.op = "signTAPRequest" /\ res.dateNow > T0
  /\ Param(parseSignatureInput(res.result.SignatureInput), KeyExpires)
       = ToDecimal(res.dateNow + 480)

\* C3: for an envelope of signTAPRequest whose nonce is the standard base64 of
\* 64 random bytes, as POST /sign makes it, parseSignatureInput yields the
\* created, keyid, expires, nonce and tag that were signed, and the route's
\* createSignatureBase yields the base that was signed.
VerifierRebuildsSignedBase ==
  envelope # <<>> /\ InFlight.via = "POST /sign" =>
    LET params == parseSignatureInput(InFlight.env.SignatureInput)
    IN  /\ Param(params, KeyCreated) = ToDecimal(InFlight.created)
        /\ Param(params, KeyKeyid) = InFlight.keyid
        /\ Param(params, KeyExpires) = ToDecimal(InFlight.expires)
        /\ Param(params, KeyNonce) = InFlight.nonce
        /\ Param(params, KeyTag) = InFlight.tag
        /\ routeCreateSignatureBase(InFlight.authority, InFlight.path, params)
             = InFlight.signedBase

\* C4: POST /verify with the Signature-Input and Signature POST /sign returned,
\* the same authority and path, and no publicKey or the publicKey POST /sign
\* returned, answers valid: true, and hands the signer's 32 public-key bytes
\* to verifySignature.
IsVerifyRequest == res.op = "POST /verify" /\ envelope # <<>>
Answered(valid) ==
  IsVerifyRequest /\ res.handled.response.status = 200
    /\ res.handled.response.valid = valid
MerchantVerifiesSigned ==
  ( /\ IsVerifyRequest /\ InFlight.via = "POST /sign"
    /\ res.body.authority = InFlight.authority /\ res.body.path = InFlight.path
    /\ res.body.publicKey \in {<<>>, <<getPublicKey(tapSigner)>>} )
  => Answered(TRUE) /\ res.handled.pubKeyBytes = OwnKey

\* C5: with any one of authority, path, created, keyid, expires, nonce and tag
\* changed before the base is rebuilt, verifySignature with the signer's
\* public key returns false.
IsTamperedCall ==
  /\ IsVerifyCall /\ res.signature = Stripped
  /\ res.publicKey \in {<<>>, <<OwnKey>>}
  /\ \E f \in Tampered(InFlight) : res.signatureBase = BaseOf(f)
TamperedBaseRejected == IsTamperedCall => res.result = Ok(FALSE)
TamperedWitness ==
  /\ IsTamperedCall /\ res.result = Ok(FALSE)
  /\ res.signatureBase = BaseOf([Fields(InFlight) EXCEPT !.tag = TagBrowser])

\* C6: verifySignature returns false for the signed base, the stripped
\* signature and a 32-byte public key that is not the signer's.
IsWrongKeyCall ==
  /\ OnSignedBase /\ res.signature = Stripped
  /\ res.publicKey # <<>>
  /\ Len(res.publicKey[1]) = crypto_sign_PUBLICKEYBYTES
  /\ res.publicKey[1] # OwnKey
WrongKeyRejected == IsWrongKeyCall => res.result = Ok(FALSE)
WrongKeyWitness ==
  IsWrongKeyCall /\ res.result = Ok(FALSE) /\ res.publicKey = <<OtherPublicKey>>

\* C7: verifySignature returns a boolean and never throws; it returns false
\* when the signature does not decode, decodes to other than 64 bytes, or the
\* key has other than 32 bytes; and it leaves the signer as it was.
Undecodable(signature) ==
  LET d == base64UrlDecode(signature)
  IN  d.thrown \/ Len(d.value) # crypto_sign_BYTES
KeyUsed == IF res.publicKey = <<>> THEN OwnKey ELSE res.publicKey[1]
AnswersBoolean ==
  res.op = "verifySignature" =>
    /\ ~res.result.thrown
    /\ res.result.value \in BOOLEAN
    /\ (Undecodable(res.signature) \/ Len(KeyUsed) # crypto_sign_PUBLICKEYBYTES)
         => res.result.value = FALSE
FailsClosed ==
  /\ []AnswersBoolean
  /\ [][res'.op = "verifySignature" => tapSigner' = tapSigner]_vars
FailsClosedWitness ==
  /\ res.op = "verifySignature" /\ res.result = Ok(FALSE)
  /\ base64UrlDecode(res.signature).thrown
  /\ Len(KeyUsed) # crypto_sign_PUBLICKEYBYTES

\* C8, as the source has it: verifySignature does not remove the wrapper.  With
\* the Signature exactly as emitted ("sig2=:" ... ":") it returns false; with
\* the wrapper removed by the caller it returns true, the key being the
\* signer's own (given, or by default).
IsWrappedCall ==
  /\ OnSignedBase /\ res.signature = InFlight.env.Signature
  /\ res.publicKey \in {<<>>, <<OwnKey>>}
IsStrippedCall ==
  /\ OnSignedBase /\ res.signature = Stripped
  /\ res.publicKey \in {<<>>, <<OwnKey>>}
WrapperIsTheCallersToRemove ==
  /\ IsWrappedCall => res.result = Ok(FALSE)
  /\ IsStrippedCall => res.result = Ok(TRUE)
WrappedWitness ==
  IsWrappedCall /\ res.result = Ok(FALSE) /\ res.publicKey = <<OwnKey>>

\* C8, as stated: verifySignature returns true for the Signature exactly as
\* emitted.
VerifyStripsWrapper == IsWrappedCall => res.result = Ok(TRUE)

\* C9: POST /verify never answers valid: true for an envelope whose parsed
\* expires is earlier than the current time.
ParsedExpiresBefore(t) ==
  \E n \in {InFlight.expires} :
    /\ Param(res.handled.params, KeyExpires) = ToDecimal(n)
    /\ n < t
ExpiredNeverValid == Answered(TRUE) => ~ParsedExpiresBefore(res.dateNow)

\* C10: POST /verify does not answer valid: true for a nonce it has answered
\* valid: true before, the envelope being within its validity window.
NoNonceAcceptedTwice ==
  Answered(TRUE) /\ ~ParsedExpiresBefore(res.dateNow)
    => Param(res.handled.params, KeyNonce) \notin res.seen

\* C11: the keyid of the Signature-Input that signTAPRequest returns, and of the
\* base it signed, is the keyId of the request, also when that is not the
\* signer's own key id.
KeyidOf(text) == Param(parseSignatureInput(text), KeyKeyid)
SignUsesRequestKeyId ==
  res.op = "signTAPRequest" =>
    /\ KeyidOf(res.result.SignatureInput) = res.requestData.keyId
    /\ KeyidOf(InFlight.signedBase) = res.requestData.keyId

\* C12: getKeyId() is the keyId the constructor was given, when it was given
\* one, and otherwise the base58 text of the public key, which getPublicKey()
\* returns; for every combination of a private key and a keyId given or not.
KeyIdIsGivenOrDerived ==
  getKeyId(tapSigner) =
    IF processEnv.TAP_KEY_ID # <<>> THEN processEnv.TAP_KEY_ID[1]
    ELSE getPublicKey(tapSigner)

\* C13: no call of signTAPRequest, verifySignature, getPublicKey or getKeyId
\* changes the signer; getKeyId() returns the key id the envelope in flight was
\* signed under, and getPublicKey() the key its signature verifies under.
GettersAnswerAsAtSigning ==
  /\ res.op = "getKeyId" /\ envelope # <<>> => res.result = InFlight.keyid
  /\ res.op = "getPublicKey" /\ envelope # <<>> =>
       LET key == Bs58Decode(res.result)
       IN  /\ ~key.thrown
           /\ verifySignature(tapSigner, InFlight.signedBase, Stripped, <<key.value>>)
                = Ok(TRUE)
SignerIsStateless ==
  /\ [][tapSigner' = tapSigner]_vars
  /\ []GettersAnswerAsAtSigning
StatelessWitness ==
  /\ res.op = "getPublicKey" /\ envelope # <<>> /\ InFlight.created < now
  /\ InFlight.keyid # OtherKeyId /\ InFlight.nonce = PaddedNonce

\* C14: every envelope POST /sign emits carries one of the two tags of the
\* enum, and a POST /sign request with another tag gets no signature.
SignedTagsAreOfTheEnum ==
  /\ envelope # <<>> /\ InFlight.via = "POST /sign" =>
       Param(parseSignatureInput(InFlight.env.SignatureInput), KeyTag) \in Tags
  /\ res.op = "POST /sign" /\ res.body.tag \notin Tags => res.response.status # 200

\* C15: a POST /verify request that carries all required fields and is not
\* accepted is answered with status 200 and valid: false, whatever made it
\* fail: a signature that is malformed or no string, a signature that does not
\* verify, a wrong or malformed public key.
RejectionsLookAlike ==
  ( /\ IsVerifyRequest
    /\ res.body.signatureInput # <<>> /\ res.body.signature # <<>>
    /\ res.body.authority # <<>> /\ res.body.path # <<>>
    /\ ~Answered(TRUE) )
  => Answered(FALSE)

\* The registry's signer, the keys the last getJWKS call returned, and whether
\* a JWK is the key of a signer.
Current == keyRegistry.tapSigner
Served == res.result.keys
IsServing == res.op = "getJWKS" /\ ~res.result.thrown
IsJWKOf(jwk, signer) ==
  /\ jwk.kid = getKeyId(signer)
  /\ base64UrlDecode(jwk.x) = Ok(signer.keyPair.publicKey)
Serves(signer) == \E i \in 1..Len(Served) : IsJWKOf(Served[i], signer)

\* C16: the JWK that ed25519ToJWK builds from a signer's getPublicKey() and
\* getKeyId() has kid = keyId and an x that base64url-decodes to the signer's
\* 32 public-key bytes; the registry stores it under the key id on every
\* successful getJWKS, registerWithVisa and rotateKey.
HasStoredAKey ==
  res.op \in {"getJWKS", "registerWithVisa", "rotateKey"} /\ ~res.result.thrown
StoredJWK ==
  LET map == keyRegistry.registeredKeys
  IN  map[CHOOSE i \in 1..Len(map) : map[i].key = getKeyId(Current)].value
JWKRoundTrip ==
  HasStoredAKey =>
    /\ MapHas(keyRegistry.registeredKeys, getKeyId(Current))
    /\ IsJWKOf(StoredJWK, Current)
    /\ Len(Current.keyPair.publicKey) = crypto_sign_PUBLICKEYBYTES
JWKRoundTripWitness ==
  /\ res.op = "rotateKey" /\ ~res.result.thrown /\ Current # tapSigner
  /\ IsJWKOf(StoredJWK, Current)

\* C17: the first of the keys getJWKS returns is the key of the registry's
\* current signer.
CurrentKeyIsServedFirst == IsServing => IsJWKOf(Served[1], Current)

\* C18: a getJWKS call straight after a getJWKS call returns the same keys in
\* the same order.
JWKSIsStable == IsServing /\ res.earlier # <<>> => Served = res.earlier[1]
JWKSIsStableWitness ==
  IsServing /\ res.earlier # <<>> /\ Len(Served) >= 2 /\ Current # tapSigner

\* C19: the keys getJWKS returns hold exactly one entry with the kid of the
\* registry's current signer, that entry is the signer's public key, and no
\* two entries have the same kid.
OneEntryForCurrentSigner ==
  IsServing =>
    /\ Cardinality({i \in 1..Len(Served) : Served[i].kid = getKeyId(Current)}) = 1
    /\ Serves(Current)
    /\ \A i, j \in 1..Len(Served) : Served[i].kid = Served[j].kid => i = j
OneEntryWitness ==
  /\ IsServing /\ Len(Served) >= 2 /\ Serves(Current)
  /\ getKeyId(Current) = EnvKeyId /\ Current # tapSigner

\* C20: the getJWKS call after a successful rotateKey(newSigner) returns the
\* key of the signer before the rotation and the key of the new signer.
BothKeysServedAfterRotation ==
  [][ ( /\ res.op = "rotateKey" /\ ~res.result.thrown
        /\ res'.op = "getJWKS" /\ ~res'.result.thrown )
      => /\ \E i \in 1..Len(res'.result.keys) :
              IsJWKOf(res'.result.keys[i], res.newSigner)
         /\ \E i \in 1..Len(res'.result.keys) :
              IsJWKOf(res'.result.keys[i], res.before) ]_vars
\* C29: a rotateKey or registerWithVisa call whose Visa call rejects, rejects,
\* and leaves the registered keys and the registry's signer as they were.
FailedCallsChangeNothing ==
  [][(res'.op \in {"rotateKey", "registerWithVisa"} /\ ~res'.visaResolves)
       => (res'.result.thrown /\ keyRegistry' = keyRegistry)]_vars
FailedRotationWitness ==
  /\ res.op = "rotateKey"
  /\ ~res.visaResolves
  /\ res.result.thrown
  /\ res.newSigner # Current
  /\ Len(keyRegistry.registeredKeys) >= 1
  /\ ~MapHas(keyRegistry.registeredKeys, getKeyId(res.newSigner))

\* C22: with getJWKS calls between the steps of rotateKey calls suspended at
\* their await, the registry (its signer and its keys) is at every moment the
\* one the calls make when each rotation is taken as one step at the moment
\* it returns, and the keys served hold the key of the signer of that moment.
RotationIsAtomic ==
  /\ keyRegistry = linearized
  /\ IsServing => Serves(Current)
RotationIsAtomicWitness ==
  /\ IsServing
  /\ Len(rotations) >= 1
  /\ Current # tapSigner
  /\ \E i \in 1..Len(rotations) : rotations[i].newSigner # Current

\* C21: every envelope POST /sign produces is signed with the key of the
\* registry's current signer and carries its key id, also after a rotation.
SigningKeyIsPublishedKey ==
  (res.op = "POST /sign" /\ res.response.status = 200)
    => /\ InFlight.keyid = getKeyId(Current)
       /\ res.response.keyId = getKeyId(Current)
       /\ verifySignature(Current, InFlight.signedBase, Stripped,
                          <<Current.keyPair.publicKey>>) = Ok(TRUE)

\* C28: the signature of one request never verifies, with the signer's public
\* key, for the base rebuilt from another tuple of authority, path, created,
\* keyid, expires, nonce and tag.
IsResplicedCall ==
  /\ IsVerifyCall /\ res.signature = Stripped
  /\ res.publicKey \in {<<>>, <<OwnKey>>}
  /\ \E f \in Respliced(InFlight) :
       f # Fields(InFlight) /\ res.signatureBase = BaseOf(f)
SignatureBindsOneTuple == IsResplicedCall => res.result = Ok(FALSE)

\* C30: whenever no chatQuery call is in progress, the stored history of the
\* user holds at most 20 messages, also after calls whose AI request failed.
HistoryIsBounded == chats = <<>> => Len(HistoryOf(DefaultUser)) <= HistoryLimit

\* C25: POST /api/visa/webhook answers received: true only to a request whose
\* X-Pay-Token verifyXPayToken accepts; a request with no token, or with one
\* it does not accept, is answered 401.
TokenAccepted ==
  /\ res.req.xPayToken # <<>>
  /\ verifyXPayToken(VisaConfig, res.req.xPayToken[1], res.req.path, res.req.query,
                     res.req.body, res.dateNow)
WebhookAcknowledgesVerifiedOnly ==
  res.op = "POST /webhook"
    => IF TokenAccepted
       THEN res.response.status = 200 /\ res.response.received
       ELSE res.response.status = 401 /\ ~res.response.received

\* C24: calculateRoundUp(a) is a round-up r of whole cents with 0 <= r < 1
\* and a + r a whole number; it is 0 for a whole amount, and 0.55, the number
\* of 55 cents, for 23.45.
RoundUpIsWholeCents ==
  res.op = "calculateRoundUp"
    => /\ res.result = NumberOfCents(res.result.cents)
       /\ 0 <= res.result.cents /\ res.result.cents < CentsPerUnit
       /\ (res.amount.cents + res.result.cents) % CentsPerUnit = 0
       /\ (res.amount.cents % CentsPerUnit = 0 => res.result = NumberOfCents(0))

\* The number stored under roundup:total:<user>.
StoredTotal == AccumulatedTotalOf(redis.total)

NoLostRoundUps ==
  roundUps = <<>> => StoredTotal = Plus(ledger.before, ledger.roundUps)

\* C27: purchases processed at the same time, from a total below 10, publish
\* ROUND_UP_TRIGGER at most once.
AtMostOneTrigger == Len(redis.channel) <= 1

====
